---- MODULE Spec2Model ----
(***************************************************************************)
(* A model of cuckoo_distributed: four AMQP workers (feed_cuckoo,          *)
(* check_results, parse_and_submit, overseer) around a Cuckoo sandbox and  *)
(* a CRITs repository.  Message bodies are modelled by their decoded       *)
(* content (a record per JSON shape, or a "raw" body that is not JSON);    *)
(* every delivery gets a tag, and hist[tag] records, in program order,     *)
(* what the handler of that delivery did.                                  *)
(***************************************************************************)
EXTENDS Integers, Sequences, FiniteSets, TLC

VARIABLES
    queues,      \* broker: queue name -> sequence of bodies waiting for delivery
    deliveries,  \* every delivery made so far, indexed by delivery tag
    unacked,     \* tags delivered and neither acked nor nacked (broker's view)
    hist,        \* tag -> sequence of events of the handler(s) of that delivery
    tasks,       \* goroutines handling one delivery each
    alive,       \* worker -> whether its process is running
    conf,        \* configuration read by main()
    sandbox,     \* the Cuckoo sandbox as the workers see it
    watchMap,    \* check_results: analysis id -> watchElem
    loop,        \* check_results: the checkLoop goroutine
    failedMap,   \* overseer: analysis id -> number of failures seen
    dumpDir,     \* overseer: the files of DumpDir
    crits,       \* the batches AddResults pushed to the repository
    published,   \* number of messages the environment has published
    crashes      \* number of times a worker process was killed from outside

vars == <<queues, deliveries, unacked, hist, tasks, alive, conf, sandbox,
          watchMap, loop, failedMap, dumpDir, crits, published, crashes>>

-----------------------------------------------------------------------------
(* Bounds of the model *)

MaxPublish == 2         \* messages the environment publishes
MaxPolls == 2           \* status polls made for one delivery
MaxEnvelopes == 4       \* messages the environment publishes to the failed queue
MaxCrashes == 1         \* worker processes killed from outside
MaxSamples == 1         \* samples submitted to the whole pipeline
MaxDeliveries == 6      \* deliveries the broker makes
MaxSignatures == 2      \* signatures of a report
MaxProcesses == 3       \* processes of a report
MaxCap == 3             \* the largest PushApiCallsMax
MaxRetryDeliveries == 16 \* deliveries the broker makes while messages are retried
MaxChainDeliveries == 6  \* deliveries the broker makes to the chained Reporters
MaxRestartDeliveries == 9 \* deliveries the broker makes while the Overseer is restarted

-----------------------------------------------------------------------------
(* Configuration and program constants *)

Feeder == "feed_cuckoo"
Watcher == "check_results"
Reporter == "parse_and_submit"
Overseer == "overseer"
Workers == {Feeder, Watcher, Reporter, Overseer}

\* a second instance of parse_and_submit, chained to the first one
SecondReporter == "parse_and_submit, second instance"
Reporters == {Reporter, SecondReporter}
Instances == Workers \cup {SecondReporter}

\* the service name the instance gives lib.Init
ServiceName(w) == IF w = SecondReporter THEN Reporter ELSE w

SubmitQueue == "submit"
PendingQueue == "pending"
ReadyQueue == "ready"
FailedQueue == "failed"
ChainQueue == "chain"
QueueNames == {SubmitQueue, PendingQueue, ReadyQueue, FailedQueue, ChainQueue}

ConsumerQueue(w) ==
    CASE w = Feeder -> SubmitQueue
      [] w = Watcher -> PendingQueue
      [] w = Reporter -> ReadyQueue
      [] w = SecondReporter -> ChainQueue
      [] w = Overseer -> FailedQueue

PrefetchCount == 2
maxPending == 1
FreeLimit == 268435456
MaxFailures == 3
CuckooURL == "http://cuckoo"

-----------------------------------------------------------------------------
(* Message bodies *)

NilCrits == [nil |-> TRUE, AnalysisId |-> 0]
CritsData(aid) == [nil |-> FALSE, AnalysisId |-> aid]

NilFile == [nil |-> TRUE, hasName |-> FALSE, name |-> "", hasData |-> FALSE, data |-> ""]
FileMap(hasName, name, hasData, data) ==
    [nil |-> FALSE, hasName |-> hasName, name |-> name, hasData |-> hasData, data |-> data]

GoodB64 == "QUJD"
BadB64 == "%%%"

\* a file name with a byte that is not valid UTF-8, and what encoding/json
\* makes of it
BadUTF8Name == "\\xff.exe"
ReplacedName == "\\ufffd.exe"

\* a body that is not JSON; utf8 tells whether its bytes are valid UTF-8
RawBody(id, utf8) == [k |-> "raw", id |-> id, utf8 |-> utf8]

\* {"payload": .., "file": .., "crits_data": ..}
SubmitBody(id, file, cd) == [k |-> "submit", id |-> id, file |-> file, crits_data |-> cd]

\* {"TaskId": .., "CuckooURL": .., "CritsData": ..}
TaskBody(taskId, url, cd) == [k |-> "task", TaskId |-> taskId, CuckooURL |-> url, CritsData |-> cd]

\* what string(b) holds once encoding/json has written it: invalid UTF-8 bytes
\* are replaced by U+FFFD
ToValidUTF8(b) ==
    IF b.k = "raw" /\ b.utf8 = "invalid" THEN [b EXCEPT !.utf8 = "replaced"]
    ELSE IF b.k = "submit" /\ b.file.name = BadUTF8Name
    THEN [b EXCEPT !.file.name = ReplacedName]
    ELSE b

-----------------------------------------------------------------------------
(* encoding/json and encoding/base64, as far as the workers use them *)

NoErr == "<nil>"
ErrSyntax == "invalid character"
ErrBase64 == "illegal base64 data"

\* json.Unmarshal(body, &struct): a syntax error for a body that is not JSON;
\* a JSON object decodes into any struct, unknown keys being dropped
Unmarshal(body) == IF body.k = "raw" THEN ErrSyntax ELSE NoErr

\* json.Marshal of a struct: string fields are coerced to valid UTF-8
Marshal(v) == IF v.k = "failed" THEN [v EXCEPT !.Msg = ToValidUTF8(@)] ELSE v

DecodeString(data) == IF data \in {"", GoodB64} THEN NoErr ELSE ErrBase64

\* the DistributedCuckooReq a body decodes into
DistributedCuckooReq(body) ==
    IF body.k = "submit"
    THEN [File |-> ToValidUTF8(body).file, CritsData |-> body.crits_data]
    ELSE [File |-> NilFile, CritsData |-> NilCrits]

\* the FeedCuckooReq / CheckResultsReq a body decodes into
FeedCuckooReq(body) ==
    IF body.k = "task"
    THEN [TaskId |-> body.TaskId, CuckooURL |-> body.CuckooURL, CritsData |-> body.CritsData]
    ELSE [TaskId |-> 0, CuckooURL |-> "", CritsData |-> NilCrits]

ValidateDistributedCuckooReq(r) ==
    IF r.File.nil THEN "File map doesn't exist!"
    ELSE IF ~r.File.hasName \/ ~r.File.hasData \/ r.File.name = "" \/ r.File.data = ""
         THEN "file map layout invalid!"
    ELSE IF r.CritsData.nil THEN "crits struct doesn't exist!"
    ELSE NoErr

ValidateFeedCuckooReq_NoContextTest(r) ==
    IF r.CuckooURL = "" \/ r.TaskId = 0 THEN "No CuckooURL / TaskId!" ELSE NoErr

ValidateFeedCuckooReq(r) ==
    IF r.CuckooURL = "" \/ r.TaskId = 0 THEN "No CuckooURL / TaskId!"
    ELSE IF r.CritsData.nil THEN "crits struct doesn't exist!"
    ELSE NoErr

-----------------------------------------------------------------------------
(* The broker and the shared core (lib) *)

EvSend(q, body) == [e |-> "Send", q |-> q, body |-> body]
EvAck == [e |-> "Ack"]
EvNack(requeue) == [e |-> "Nack", requeue |-> requeue]
EvNackOnError(err, desc) == [e |-> "NackOnError", err |-> err, desc |-> desc]
EvReturn == [e |-> "return"]
EvPanic == [e |-> "panic"]

RECURSIVE Count(_, _)
Count(h, e) ==
    IF h = <<>> THEN 0 ELSE (IF Head(h).e = e THEN 1 ELSE 0) + Count(Tail(h), e)

Log(h, tag, evs) == [h EXCEPT ![tag] = @ \o evs]

\* QueueHandler.Send: publish msg to the handler's queue
Send(qs, q, msg) == [qs EXCEPT ![q] = Append(@, msg)]

TagsOf(w) == {tag \in unacked : deliveries[tag].consumer = w}

\* the receiving goroutine of Consume calls fn(m) for one delivery at a time
ParseBusy(w) == \E t \in tasks : t.w = w /\ t.inParse

\* the deliveries the broker makes in all: a configuration may set its own bound
DeliveryBound == IF "deliveries" \in DOMAIN conf THEN conf.deliveries ELSE MaxDeliveries

\* a Consume that drops the prefetch count of the configuration file
PrefetchOf_Unlimited == IF "PrefetchCount" \in DOMAIN conf THEN 0 ELSE PrefetchCount

\* the prefetch count Core.Consume hands to Channel.Qos: PrefetchCount of the
\* configuration file
PrefetchOf == IF "PrefetchCount" \in DOMAIN conf THEN conf.PrefetchCount ELSE PrefetchCount

\* Channel.Qos: the broker delivers to a consumer while fewer than the
\* prefetch count of its deliveries are unacknowledged; a prefetch count of 0
\* sets no limit
WithinQos(w) == PrefetchOf = 0 \/ Cardinality(TagsOf(w)) < PrefetchOf

CanConsume(w) ==
    /\ Len(deliveries) < DeliveryBound
    /\ alive[w]
    /\ ~ParseBusy(w)
    /\ Len(queues[ConsumerQueue(w)]) > 0
    /\ WithinQos(w)

NextDelivery(w) ==
    [consumer |-> w, RoutingKey |-> ConsumerQueue(w), tag |-> Len(deliveries) + 1,
     Body |-> Head(queues[ConsumerQueue(w)])]

\* a NackOnError that names the failed queue instead of the routing key
FailedMsg_FailedQueue(service, d, err, desc) ==
    [k |-> "failed", Service |-> service, Queue |-> FailedQueue, Error |-> err,
     Desc |-> desc, Msg |-> d.Body]

\* the FailedMsg NackOnError builds for delivery d
FailedMsg(service, d, err, desc) ==
    [k |-> "failed", Service |-> service, Queue |-> d.RoutingKey, Error |-> err,
     Desc |-> desc, Msg |-> d.Body]

\* a NackOnError that would send the body bytes as they are
NackOnErrorMsg_Raw(service, d, err, desc) == FailedMsg(service, d, err, desc)

\* NackOnError, first half: the bytes sent to the failed queue
NackOnErrorMsg(service, d, err, desc) == Marshal(FailedMsg(service, d, err, desc))

\* NackOnError, first half, as the events of the delivery's handler
NackOnErrorSend(service, d, err, desc) ==
    <<EvNackOnError(err, desc), EvSend(FailedQueue, NackOnErrorMsg(service, d, err, desc))>>

\* a NackOnError that asks the broker to requeue
NackOnErrorNack_Requeue == <<EvNack(TRUE)>>

\* NackOnError, second half: msg.Nack(false, false)
NackOnErrorNack == <<EvNack(FALSE)>>

RECURSIVE SortedSeq(_)
SortedSeq(S) ==
    IF S = {} THEN <<>>
    ELSE LET m == CHOOSE x \in S : \A y \in S : x <= y
         IN <<m>> \o SortedSeq(S \ {m})

RECURSIVE BodiesOf(_)
BodiesOf(tags) ==
    IF tags = <<>> THEN <<>>
    ELSE <<deliveries[Head(tags)].Body>> \o BodiesOf(Tail(tags))

\* a Consume with auto-ack: a dead consumer leaves nothing to requeue
Requeued_AutoAck(w) == queues

\* the process of worker w dies (a Go panic): its goroutines are gone and the
\* broker requeues what it had not acknowledged
Requeued(w) ==
    [q \in QueueNames |->
        IF q = ConsumerQueue(w) THEN BodiesOf(SortedSeq(TagsOf(w))) \o queues[q]
        ELSE queues[q]]

Abandon(w, h) ==
    [tag \in DOMAIN h |-> IF tag \in TagsOf(w) THEN Append(h[tag], EvPanic) ELSE h[tag]]

-----------------------------------------------------------------------------
(* The sandbox (Cuckoo) *)

\* what GET /cuckoo/status decodes into; hasDisk is false when the answer has
\* no diskspace object (Cuckoo 1.2), nil when GetStatus returned an error
CkoStatus(resp) ==
    [nil |-> resp = "fail", hasDisk |-> resp = "ok",
     Pending |-> IF resp = "fail" THEN 0 ELSE sandbox.Pending,
     Free |-> IF resp = "ok" THEN sandbox.Free ELSE 0]

NoStatus == [nil |-> TRUE, hasDisk |-> FALSE, Pending |-> 0, Free |-> 0]

\* a pending analysis starts
SandboxRun ==
    /\ sandbox.Pending > 0
    /\ sandbox' = [sandbox EXCEPT !.Pending = @ - 1]
    /\ UNCHANGED <<queues, deliveries, unacked, hist, tasks, alive, conf,
                   watchMap, loop, failedMap, dumpDir, crits, published, crashes>>

\* old analyses are deleted from the analyses partition
SandboxDisk ==
    /\ sandbox.Free <= FreeLimit
    /\ sandbox' = [sandbox EXCEPT !.Free = FreeLimit + 1]
    /\ UNCHANGED <<queues, deliveries, unacked, hist, tasks, alive, conf,
                   watchMap, loop, failedMap, dumpDir, crits, published, crashes>>

-----------------------------------------------------------------------------
(* feed_cuckoo *)

EvGetStatus == [e |-> "GetStatus"]
EvSlowdown == [e |-> "Slowdown"]
EvNewTask(ok, id, polled, pendingNow, freeNow) ==
    [e |-> "NewTask", ok |-> ok, id |-> id, polled |-> polled,
     pendingNow |-> pendingNow, freeNow |-> freeNow]

\* parseMsg up to the spawn of handleSubmit: the first error and its description
FeederParse(body) ==
    LET m == DistributedCuckooReq(body) IN
    IF Unmarshal(body) # NoErr
    THEN [err |-> Unmarshal(body), desc |-> "Could not decode json!"]
    ELSE IF ValidateDistributedCuckooReq(m) # NoErr
    THEN [err |-> ValidateDistributedCuckooReq(m), desc |-> "Error in msg from Crits service!"]
    ELSE IF DecodeString(m.File.data) # NoErr
    THEN [err |-> DecodeString(m.File.data), desc |-> "Couldn't decode msg!"]
    ELSE [err |-> NoErr, desc |-> ""]

FeederTask(tag, pc, inParse, st) ==
    [w |-> Feeder, tag |-> tag, pc |-> pc, inParse |-> inParse, cStatus |-> st]

\* parseMsg of feed_cuckoo: a delivery is taken from submit and either fails
\* (NackOnError publishes the FailedMsg) or is handed to a handleSubmit goroutine
FeederParseMsg ==
    /\ CanConsume(Feeder)
    /\ LET d == NextDelivery(Feeder)
           r == FeederParse(d.Body)
       IN /\ deliveries' = Append(deliveries, d)
          /\ unacked' = unacked \cup {d.tag}
          /\ IF r.err # NoErr
             THEN LET jm == NackOnErrorMsg(Feeder, d, r.err, r.desc)
                  IN /\ queues' = Send([queues EXCEPT ![SubmitQueue] = Tail(@)], FailedQueue, jm)
                     /\ hist' = Append(hist, NackOnErrorSend(Feeder, d, r.err, r.desc))
                     /\ tasks' = tasks \cup {FeederTask(d.tag, "Nack", TRUE, NoStatus)}
             ELSE /\ queues' = [queues EXCEPT ![SubmitQueue] = Tail(@)]
                  /\ hist' = Append(hist, <<>>)
                  /\ tasks' = tasks \cup {FeederTask(d.tag, "GetStatus", FALSE, NoStatus)}
    /\ UNCHANGED <<alive, conf, sandbox, watchMap, loop, failedMap, dumpDir, crits, published, crashes>>

\* a loop that waits for the pending tasks only
Slowdown_PendingOnly(cStatus) == cStatus.Pending >= maxPending

\* the loop condition of handleSubmit
Slowdown(cStatus) ==
    cStatus.Pending >= maxPending \/ (conf.checkFreeSpace /\ cStatus.Free <= FreeLimit)

\* cStatus is nil after a failed GetStatus, Diskspace is nil when the answer had
\* none: the loop condition or the Slowdown log dereferences them
Dereferences(cStatus) ==
    \/ cStatus.nil
    \/ ~cStatus.hasDisk /\ (cStatus.Pending >= maxPending \/ conf.checkFreeSpace)

\* an entry of watchMap with its key; Msg is the delivery, by its tag
watchElem(k, req, tag) == [k |-> k, Req |-> req, Msg |-> tag]

\* checkLoop between two passes
IdleLoop == [pc |-> "sleep", todo |-> {}, k |-> 0, v |-> watchElem(0, FeedCuckooReq(RawBody(0, "valid")), 0)]

AnalysisIds == 0 .. MaxPublish + 1

\* make(map[string]int): a key that is not set reads as 0
EmptyFailedMap == [a \in AnalysisIds |-> 0]

\* a Go panic in a goroutine of worker w ends the process: its memory is gone;
\* h is the history up to the panic
Panic(w, h) ==
    /\ crashes < MaxCrashes
    /\ crashes' = crashes + 1
    /\ alive' = [alive EXCEPT ![w] = FALSE]
    /\ tasks' = {t \in tasks : t.w # w}
    /\ unacked' = unacked \ TagsOf(w)
    /\ queues' = Requeued(w)
    /\ hist' = Abandon(w, h)
    /\ watchMap' = IF w = Watcher THEN {} ELSE watchMap
    /\ loop' = IF w = Watcher THEN IdleLoop ELSE loop
    /\ failedMap' = IF w = Overseer THEN EmptyFailedMap ELSE failedMap

\* handleSubmit: cuckoo.GetStatus() and the test of the loop condition
FeederGetStatus(t, resp) ==
    /\ t.w = Feeder /\ t.pc = "GetStatus"
    /\ Count(hist[t.tag], "GetStatus") < MaxPolls
    /\ LET st == CkoStatus(resp) IN
       IF Dereferences(st)
       THEN /\ Panic(Feeder, Log(hist, t.tag, <<EvGetStatus>>))
            /\ UNCHANGED <<deliveries, conf, sandbox, dumpDir, crits, published>>
       ELSE /\ tasks' = (tasks \ {t}) \cup
                           {[t EXCEPT !.cStatus = st,
                                      !.pc = IF Slowdown(st) THEN "GetStatus" ELSE "NewTask"]}
            /\ hist' = Log(hist, t.tag,
                           <<EvGetStatus>> \o (IF Slowdown(st) THEN <<EvSlowdown>> ELSE <<>>))
            /\ UNCHANGED <<queues, deliveries, unacked, alive, conf, sandbox, watchMap, loop,
                           failedMap, dumpDir, crits, published, crashes>>

\* a handleSubmit that forgets the CritsData of the request
NewFeedCuckooReq_NoContext(id, m) == TaskBody(id, CuckooURL, NilCrits)

\* the FeedCuckooReq handleSubmit sends for the task the sandbox created
NewFeedCuckooReq(id, m) == TaskBody(id, CuckooURL, m.CritsData)

\* a handleSubmit that acknowledges the delivery before it publishes the task
FeederNewTask_AckFirst(t, ok) ==
    /\ t.w = Feeder /\ t.pc = "NewTask" /\ ok
    /\ sandbox' = [sandbox EXCEPT !.Pending = @ + 1, !.nextId = @ + 1]
    /\ unacked' = unacked \ {t.tag}
    /\ hist' = Log(hist, t.tag,
                   <<EvNewTask(ok, sandbox.nextId, t.cStatus, sandbox.Pending, sandbox.Free),
                     EvAck>>)
    /\ tasks' = (tasks \ {t}) \cup {[t EXCEPT !.pc = "Send"]}
    /\ UNCHANGED <<queues, deliveries, alive, conf, watchMap, loop, failedMap, dumpDir, crits,
                   published, crashes>>

\* handleSubmit: cuckoo.NewTask, then the FeedCuckooReq to the producer queue
\* or NackOnError
FeederNewTask(t, ok) ==
    /\ t.w = Feeder /\ t.pc = "NewTask"
    /\ LET d == deliveries[t.tag]
           m == DistributedCuckooReq(d.Body)
           id == sandbox.nextId
           ev == EvNewTask(ok, id, t.cStatus, sandbox.Pending, sandbox.Free)
       IN IF ok
          THEN LET fcReq == Marshal(NewFeedCuckooReq(id, m))
               IN /\ sandbox' = [sandbox EXCEPT !.Pending = @ + 1, !.nextId = @ + 1]
                  /\ queues' = Send(queues, PendingQueue, fcReq)
                  /\ hist' = Log(hist, t.tag, <<ev, EvSend(PendingQueue, fcReq)>>)
                  /\ tasks' = (tasks \ {t}) \cup {[t EXCEPT !.pc = "Ack"]}
          ELSE LET err == "500 Internal Server Error"
                   desc == "Uploading sample to cuckoo failed!"
               IN /\ sandbox' = sandbox
                  /\ queues' = Send(queues, FailedQueue, NackOnErrorMsg(Feeder, d, err, desc))
                  /\ hist' = Log(hist, t.tag, <<ev>> \o NackOnErrorSend(Feeder, d, err, desc))
                  /\ tasks' = (tasks \ {t}) \cup {[t EXCEPT !.pc = "Nack"]}
    /\ UNCHANGED <<deliveries, unacked, alive, conf, watchMap, loop, failedMap, dumpDir,
                   crits, published, crashes>>

\* msg.Ack(false), the last statement of a handler
TaskAck(t) ==
    /\ t.pc = "Ack"
    /\ unacked' = unacked \ {t.tag}
    /\ hist' = Log(hist, t.tag, <<EvAck, EvReturn>>)
    /\ tasks' = tasks \ {t}
    /\ UNCHANGED <<queues, deliveries, alive, conf, sandbox, watchMap, loop, failedMap,
                   dumpDir, crits, published, crashes>>

\* the second half of NackOnError and the return of the handler
TaskNack(t) ==
    /\ t.pc = "Nack"
    /\ unacked' = unacked \ {t.tag}
    /\ hist' = Log(hist, t.tag, NackOnErrorNack \o <<EvReturn>>)
    /\ tasks' = tasks \ {t}
    /\ UNCHANGED <<queues, deliveries, alive, conf, sandbox, watchMap, loop, failedMap,
                   dumpDir, crits, published, crashes>>

-----------------------------------------------------------------------------
(* check_results *)

EvInsert == [e |-> "insert"]
EvOverwritten == [e |-> "overwritten"]
EvDelete == [e |-> "delete"]
EvTaskStatus(resp) == [e |-> "TaskStatus", resp |-> resp]

\* answers to GET /tasks/view/{id}: a transport error; a body that is not JSON;
\* a JSON body with a status code other than 200; a 200 without a task object;
\* a 200 with a task in the given state
TaskStatusResps ==
    {"transport", "undecodable", "non200", "notask", "pending", "reported"}

\* CuckooConn.TaskStatus; err is "panic" where it dereferences nil: err.Error()
\* with a nil err after a decoded non-200 answer, r.Task.Status without a task
TaskStatus(resp) ==
    CASE resp = "transport" -> [status |-> "", err |-> "connection refused"]
      [] resp = "undecodable" -> [status |-> "", err |-> ErrSyntax]
      [] resp \in {"non200", "notask"} -> [status |-> "", err |-> "panic"]
      [] OTHER -> [status |-> resp, err |-> NoErr]

\* parseMsg of check_results up to the insertion: the first error
WatcherParse(body) ==
    LET m == FeedCuckooReq(body) IN
    IF Unmarshal(body) # NoErr
    THEN [err |-> Unmarshal(body), desc |-> "Could not decode json!"]
    ELSE IF ValidateFeedCuckooReq(m) # NoErr
    THEN [err |-> ValidateFeedCuckooReq(m), desc |-> "Error in msg from feed_cuckoo service!"]
    ELSE [err |-> NoErr, desc |-> ""]

Keys(wm) == {el.k : el \in wm}
Lookup(wm, k) == CHOOSE el \in wm : el.k = k

\* a map that keeps the entry it has under a key
MapAssign_KeepOld(wm, el) == IF el.k \in Keys(wm) THEN wm ELSE wm \cup {el}

\* watchMap[k] = el
MapAssign(wm, el) == {x \in wm : x.k # el.k} \cup {el}

\* delete(watchMap, k)
MapDelete(wm, k) == {x \in wm : x.k # k}

\* parseMsg of check_results: NackOnError, or the delivery is put into watchMap
\* under its analysis id and stays unacknowledged.  A key created while
\* checkLoop ranges over the map is visited in this pass or not.
WatcherParseMsg(visit) ==
    /\ CanConsume(Watcher)
    /\ LET d == NextDelivery(Watcher)
           r == WatcherParse(d.Body)
           m == FeedCuckooReq(d.Body)
           k == m.CritsData.AnalysisId
       IN /\ deliveries' = Append(deliveries, d)
          /\ unacked' = unacked \cup {d.tag}
          /\ IF r.err # NoErr
             THEN /\ ~visit
                  /\ queues' = Send([queues EXCEPT ![PendingQueue] = Tail(@)], FailedQueue,
                                    NackOnErrorMsg(Watcher, d, r.err, r.desc))
                  /\ hist' = Append(hist, NackOnErrorSend(Watcher, d, r.err, r.desc))
                  /\ tasks' = tasks \cup {[w |-> Watcher, tag |-> d.tag, pc |-> "Nack",
                                           inParse |-> TRUE]}
                  /\ UNCHANGED <<watchMap, loop>>
             ELSE /\ queues' = [queues EXCEPT ![PendingQueue] = Tail(@)]
                  /\ watchMap' = MapAssign(watchMap, watchElem(k, m, d.tag))
                  /\ hist' = Append([tag \in DOMAIN hist |->
                                        IF \E el \in watchMap : el.k = k /\ el.Msg = tag
                                        THEN Append(hist[tag], EvOverwritten) ELSE hist[tag]],
                                    <<EvInsert>>)
                  /\ IF loop.pc # "sleep" /\ k \notin Keys(watchMap)
                     THEN loop' = [loop EXCEPT !.todo = IF visit THEN @ \cup {k} ELSE @]
                     ELSE ~visit /\ loop' = loop
                  /\ UNCHANGED tasks
    /\ UNCHANGED <<alive, conf, sandbox, failedMap, dumpDir, crits, published, crashes>>

\* checkLoop is at a statement that reads or writes watchMap: the range
\* statement fetching the next entry, or delete
AtMapAccess == loop.pc \in {"next", "Ack", "Nack"}

\* the runtime ends the process ("concurrent map iteration and map write",
\* "concurrent map writes")
EvConcurrentMap == [e |-> "concurrent map access"]

\* parseMsg of check_results assigns to watchMap without a lock while checkLoop
\* reads or writes it: a data race.  The accesses fall one after the other
\* (WatcherParseMsg), or the runtime finds them overlapping and ends the
\* process.
WatcherParseMsgRace ==
    /\ CanConsume(Watcher)
    /\ AtMapAccess
    /\ LET d == NextDelivery(Watcher)
       IN /\ WatcherParse(d.Body).err = NoErr
          /\ deliveries' = Append(deliveries, d)
          /\ Panic(Watcher, Append(hist, <<EvConcurrentMap>>))
    /\ UNCHANGED <<conf, sandbox, dumpDir, crits, published>>

\* checkLoop: after the sleep, a pass over watchMap begins
LoopStart ==
    /\ alive[Watcher] /\ loop.pc = "sleep"
    /\ watchMap # {}
    /\ loop' = [loop EXCEPT !.pc = "next", !.todo = Keys(watchMap)]
    /\ UNCHANGED <<queues, deliveries, unacked, hist, tasks, alive, conf, sandbox, watchMap,
                   failedMap, dumpDir, crits, published, crashes>>

\* checkLoop: the range statement yields the next entry, or the pass ends.  An
\* entry that has been polled MaxPolls times is not polled in this model.
LoopNext ==
    /\ alive[Watcher] /\ loop.pc = "next"
    /\ LET left == {k \in loop.todo \cap Keys(watchMap) :
                       Count(hist[Lookup(watchMap, k).Msg], "TaskStatus") < MaxPolls}
       IN IF left = {}
          THEN loop' = IdleLoop
          ELSE \E k \in left :
                  loop' = [pc |-> "TaskStatus", todo |-> loop.todo \ {k}, k |-> k,
                           v |-> Lookup(watchMap, k)]
    /\ UNCHANGED <<queues, deliveries, unacked, hist, tasks, alive, conf, sandbox, watchMap,
                   failedMap, dumpDir, crits, published, crashes>>

\* a checkLoop that sends the task id without the CuckooURL
CheckResultsReq_NoURL(req) == TaskBody(req.TaskId, "", req.CritsData)

\* the CheckResultsReq checkLoop sends for a reported task
CheckResultsReq(req) == TaskBody(req.TaskId, req.CuckooURL, req.CritsData)

\* a checkLoop that takes every status for the end of the analysis
IsReported_Always(status) == TRUE

\* checkLoop: the test of the status ("if status != "reported" { continue }")
IsReported(status) == status = "reported"

\* checkLoop: cuckoo.TaskStatus for the current entry, and what follows up to
\* the bus operation that ends the handling
LoopTaskStatus(resp) ==
    /\ alive[Watcher] /\ loop.pc = "TaskStatus"
    /\ LET r == TaskStatus(resp)
           d == deliveries[loop.v.Msg]
           desc == "Couldn't get cuckoo status of task!"
       IN IF r.err = "panic"
          THEN /\ Panic(Watcher, Log(hist, d.tag, <<EvTaskStatus(resp)>>))
               /\ UNCHANGED <<deliveries, conf, sandbox, dumpDir, crits, published>>
          ELSE IF r.err # NoErr
          THEN /\ queues' = Send(queues, FailedQueue, NackOnErrorMsg(Watcher, d, r.err, desc))
               /\ hist' = Log(hist, d.tag,
                              <<EvTaskStatus(resp)>> \o NackOnErrorSend(Watcher, d, r.err, desc))
               /\ loop' = [loop EXCEPT !.pc = "Nack"]
               /\ UNCHANGED <<deliveries, unacked, tasks, alive, conf, sandbox, watchMap,
                              failedMap, dumpDir, crits, published, crashes>>
          ELSE IF ~IsReported(r.status)
          THEN /\ hist' = Log(hist, d.tag, <<EvTaskStatus(resp)>>)
               /\ loop' = [loop EXCEPT !.pc = "next"]
               /\ UNCHANGED <<queues, deliveries, unacked, tasks, alive, conf, sandbox, watchMap,
                              failedMap, dumpDir, crits, published, crashes>>
          ELSE LET crMsg == Marshal(CheckResultsReq(loop.v.Req))
               IN /\ queues' = Send(queues, ReadyQueue, crMsg)
                  /\ hist' = Log(hist, d.tag, <<EvTaskStatus(resp), EvSend(ReadyQueue, crMsg)>>)
                  /\ loop' = [loop EXCEPT !.pc = "Ack"]
                  /\ UNCHANGED <<deliveries, unacked, tasks, alive, conf, sandbox, watchMap,
                                 failedMap, dumpDir, crits, published, crashes>>

\* the events of "settle v.Msg; delete(watchMap, k)": the entry that goes is the
\* one stored under k at that moment
Settled(settle, tag, k) ==
    [t \in DOMAIN hist |->
        IF t = tag
        THEN hist[t] \o settle
                     \o (IF \E el \in watchMap : el.k = k /\ el.Msg = t THEN <<EvDelete>> ELSE <<>>)
                     \o <<EvReturn>>
        ELSE IF \E el \in watchMap : el.k = k /\ el.Msg = t THEN Append(hist[t], EvDelete)
        ELSE hist[t]]

\* checkLoop: v.Msg.Ack(false); delete(watchMap, k)
LoopAck ==
    /\ alive[Watcher] /\ loop.pc = "Ack"
    /\ unacked' = unacked \ {loop.v.Msg}
    /\ hist' = Settled(<<EvAck>>, loop.v.Msg, loop.k)
    /\ watchMap' = MapDelete(watchMap, loop.k)
    /\ loop' = [loop EXCEPT !.pc = "next"]
    /\ UNCHANGED <<queues, deliveries, tasks, alive, conf, sandbox, failedMap, dumpDir, crits,
                   published, crashes>>

\* checkLoop: the second half of NackOnError; delete(watchMap, k)
LoopNack ==
    /\ alive[Watcher] /\ loop.pc = "Nack"
    /\ unacked' = unacked \ {loop.v.Msg}
    /\ hist' = Settled(NackOnErrorNack, loop.v.Msg, loop.k)
    /\ watchMap' = MapDelete(watchMap, loop.k)
    /\ loop' = [loop EXCEPT !.pc = "next"]
    /\ UNCHANGED <<queues, deliveries, tasks, alive, conf, sandbox, failedMap, dumpDir, crits,
                   published, crashes>>

-----------------------------------------------------------------------------
(* parse_and_submit *)

\* report is the report TaskReport has decoded, NoReport when it returned an error
EvTaskReport(resp, report) == [e |-> "TaskReport", resp |-> resp, report |-> report]
EvAddResults(ok) == [e |-> "AddResults", ok |-> ok]
EvDropped(archive, results) == [e |-> "processDropped", archive |-> archive, results |-> results]
EvBatch(report, results, request) ==
    [e |-> "batch", report |-> report, results |-> results, request |-> request]
EvDeleteTask(ok) == [e |-> "DeleteTask", ok |-> ok]

\* the keys of enabledParsers that reportToCrits looks up
Parsers == {"info", "signatures", "behavior", "dropped"}

\* answers to GET /tasks/report/{id}
TaskReportResps == {"transport", "undecodable", "non200", "ok"}

\* CuckooConn.TaskReport; "panic" where err.Error() is called on a nil err
TaskReport(resp) ==
    CASE resp = "transport" -> "connection refused"
      [] resp = "undecodable" -> ErrSyntax
      [] resp = "non200" -> "panic"
      [] OTHER -> NoErr

\* the report structs, as far as the Reporter reads them
NilInfo == [nil |-> TRUE]
CkoTasksReportInfo(machine) ==
    [nil |-> FALSE, Started |-> "10:00", Ended |-> "10:05", Id |-> 7, Machine |-> machine]
CkoTasksReportSignature(n) ==
    [Severity |-> n, Description |-> "desc" \o ToString(n), Name |-> "sig" \o ToString(n)]
CkoTasksReportBhvPcsCall(p, n) ==
    [Api |-> "api" \o ToString(10 * p + n), Status |-> n = 1, Id |-> n]
CkoTasksReportBhvPcs(p, ncalls) ==
    [Name |-> "p" \o ToString(p) \o ".exe", Id |-> 100 + p, ParentId |-> 99 + p,
     FirstSeen |-> "10:0" \o ToString(p),
     Calls |-> [n \in 1 .. ncalls |-> CkoTasksReportBhvPcsCall(p, n)]]
NilSummary == [nil |-> TRUE]
CkoTasksReportBhvSummary(files, keys, mutexes) ==
    [nil |-> FALSE, Files |-> files, Keys |-> keys, Mutexes |-> mutexes]
NilBehavior == [nil |-> TRUE]
CkoTasksReportBehavior(processes, summary) ==
    [nil |-> FALSE, Processes |-> processes, Summary |-> summary]
CkoTasksReport(info, signatures, behavior) ==
    [Info |-> info, Signatures |-> signatures, Behavior |-> behavior]
NoReport == CkoTasksReport(NilInfo, <<>>, NilBehavior)

CrtResult(subtype, result, data) == [Subtype |-> subtype, Result |-> result, Data |-> data]
NilData == [nil |-> TRUE]

\* the JSON values of info.machine: a string, an object with or without the
\* key "name", null, a number, and the key "machine" missing from info
JSONString(v) == [k |-> "string", v |-> v]
JSONObject(hasName, name) == [k |-> "object", hasName |-> hasName, name |-> name]
JSONNull == [k |-> "null"]
JSONNumber == [k |-> "number"]
JSONMissing == [k |-> "missing"]

\* processReportInfo: machineString after the two json.Unmarshal of i.Machine,
\* first into a string, then into a struct with a name.  The second succeeds
\* for every object and for null, and then mStruct.Name is taken as it is
MachineString(machine) ==
    LET asString == IF machine.k = "string" /\ machine.v # "" THEN machine.v ELSE "FAILED"
    IN CASE machine.k = "object" -> IF machine.hasName THEN machine.name ELSE ""
         [] machine.k = "null" -> ""
         [] OTHER -> asString

processReportInfo(i) ==
    IF i.nil THEN <<>>
    ELSE <<CrtResult("info", MachineString(i.Machine),
                     [started |-> i.Started, ended |-> i.Ended,
                      analysis_id |-> ToString(i.Id)])>>

\* processReportSignatures: every record holds the one resMap of the function,
\* which the loop has left with the values of the last signature
processReportSignatures(sigs) ==
    IF sigs = <<>> THEN <<>> ELSE
    LET resMap == [severity |-> ToString(sigs[Len(sigs)].Severity),
                   name |-> sigs[Len(sigs)].Name]
    IN [k \in 1 .. Len(sigs) |-> CrtResult("signature", sigs[k].Description, resMap)]

\* processReportBehavior, first loop: one record per process, all holding the
\* one resMap of the function
ProcessRecords(processes) ==
    IF processes = <<>> THEN <<>> ELSE
    LET last == processes[Len(processes)]
        resMap == [process_id |-> ToString(last.Id), parent_id |-> ToString(last.ParentId),
                   first_seen |-> last.FirstSeen]
    IN [k \in 1 .. Len(processes) |-> CrtResult("process", processes[k].Name, resMap)]

ApiCallRecord(p, c) ==
    CrtResult("api_call", c.Api,
              [api |-> c.Api, status |-> c.Status, id |-> c.Id,
               process |-> p.Name \o " (" \o ToString(p.Id) \o ")"])

\* a loop that counts the calls of each process anew
RECURSIVE ApiCallRecords_PerProcess(_, _, _, _, _)
ApiCallRecords_PerProcess(processes, pi, ci, pushCounter, max) ==
    IF pi > Len(processes) THEN <<>>
    ELSE IF ci > Len(processes[pi].Calls) \/ pushCounter >= max
    THEN ApiCallRecords_PerProcess(processes, pi + 1, 1, 0, max)
    ELSE <<ApiCallRecord(processes[pi], processes[pi].Calls[ci])>>
         \o ApiCallRecords_PerProcess(processes, pi, ci + 1, pushCounter + 1, max)

\* processReportBehavior, second loop: the calls of process pi from call ci on,
\* then the later processes; the inner loop breaks when pushCounter has
\* reached pushApiCallsMax, the outer loop goes on
RECURSIVE ApiCallRecords(_, _, _, _, _)
ApiCallRecords(processes, pi, ci, pushCounter, max) ==
    IF pi > Len(processes) THEN <<>>
    ELSE IF ci > Len(processes[pi].Calls) \/ pushCounter >= max
    THEN ApiCallRecords(processes, pi + 1, 1, pushCounter, max)
    ELSE <<ApiCallRecord(processes[pi], processes[pi].Calls[ci])>>
         \o ApiCallRecords(processes, pi, ci + 1, pushCounter + 1, max)

SummaryRecords(subtype, names) ==
    [k \in 1 .. Len(names) |-> CrtResult(subtype, names[k], NilData)]

processReportBehavior(behavior, max) ==
    IF behavior.nil THEN <<>>
    ELSE ProcessRecords(behavior.Processes)
         \o ApiCallRecords(behavior.Processes, 1, 1, 0, max)
         \o SummaryRecords("file", behavior.Summary.Files)
         \o SummaryRecords("registry_key", behavior.Summary.Keys)
         \o SummaryRecords("mutex", behavior.Summary.Mutexes)

\* behavior.Summary is a pointer that processReportBehavior does not test
ShapingPanics(report, parsers) ==
    "behavior" \in parsers /\ ~report.Behavior.nil /\ report.Behavior.Summary.nil

\* a shaping that puts the behavior records before the signatures
ShapeReport_BehaviorFirst(report, parsers, max) ==
    (IF "info" \in parsers THEN processReportInfo(report.Info) ELSE <<>>)
    \o (IF "behavior" \in parsers THEN processReportBehavior(report.Behavior, max) ELSE <<>>)
    \o (IF "signatures" \in parsers THEN processReportSignatures(report.Signatures) ELSE <<>>)

\* reportToCrits, lines 131-147: resStructs before the dropped files
ShapeReport(report, parsers, max) ==
    (IF "info" \in parsers THEN processReportInfo(report.Info) ELSE <<>>)
    \o (IF "signatures" \in parsers THEN processReportSignatures(report.Signatures) ELSE <<>>)
    \o (IF "behavior" \in parsers THEN processReportBehavior(report.Behavior, max) ELSE <<>>)

\* an entry of the dropped-files archive and what happens to it: the tar header
\* reads or not, the entry is a regular file or not, NewSample and
\* ForgeRelationship answer
TarEntry(name, hdr, regular, sample, forge) ==
    [name |-> name, hdr |-> hdr, regular |-> regular, sample |-> sample, forge |-> forge]

\* the answer to GET /tasks/report/{id}/dropped and the entries of the archive
Archive(get, entries) == [get |-> get, entries |-> entries]

FileAdded(name) == CrtResult("file_added", name, [md5 |-> "md5 of " \o name])

\* processDropped, the loop over the archive: the records so far and the error
\* that ended the loop
RECURSIVE DroppedLoop(_, _)
DroppedLoop(entries, results) ==
    IF entries = <<>> THEN [results |-> results, err |-> NoErr]
    ELSE LET e == Head(entries) IN
         IF e.hdr # "ok" THEN [results |-> results, err |-> "unexpected EOF"]
         ELSE IF ~e.regular THEN DroppedLoop(Tail(entries), results)
         ELSE IF e.sample = "empty" THEN DroppedLoop(Tail(entries), results)
         ELSE IF e.sample # "ok" THEN [results |-> results, err |-> "NewSample failed"]
         ELSE IF e.forge # "ok" THEN [results |-> results, err |-> "ForgeRelationship failed"]
         ELSE DroppedLoop(Tail(entries), Append(results, FileAdded(e.name)))

\* CuckooConn.GetDropped: FastGet without a struct returns a nil error with
\* any answer, so err.Error() panics when the status is not 200
GetDropped(get) ==
    CASE get = "transport" -> "connection refused"
      [] get = "non200" -> "panic"
      [] OTHER -> NoErr

processDropped(archive) ==
    IF GetDropped(archive.get) # NoErr
    THEN [results |-> <<>>, err |-> GetDropped(archive.get)]
    ELSE DroppedLoop(archive.entries, <<>>)

\* the samples NewSample has uploaded when processDropped returns
RECURSIVE Uploaded(_)
Uploaded(entries) ==
    IF entries = <<>> \/ Head(entries).hdr # "ok" THEN {}
    ELSE LET e == Head(entries) IN
         IF ~e.regular \/ e.sample = "empty" THEN Uploaded(Tail(entries))
         ELSE IF e.sample # "ok" THEN {}
         ELSE {e.name} \cup (IF e.forge # "ok" THEN {} ELSE Uploaded(Tail(entries)))

\* AddResults: result_type of a record; bool values are turned into strings
ResultType(data) ==
    IF data = NilData THEN "{}"
    ELSE IF "status" \in DOMAIN data
    THEN [data EXCEPT !.status = IF @ THEN "true" ELSE "false"]
    ELSE data

\* a loop that appends a result_type for the records with attributes only
RECURSIVE AddResultsArrays_SkipNil(_, _)
AddResultsArrays_SkipNil(results, arr) ==
    IF results = <<>> THEN arr
    ELSE LET r == Head(results)
         IN AddResultsArrays_SkipNil(Tail(results),
                [result |-> Append(arr.result, r.Result),
                 result_type |-> IF r.Data = NilData THEN arr.result_type
                                 ELSE Append(arr.result_type, ResultType(r.Data)),
                 result_subtype |-> Append(arr.result_subtype, r.Subtype)])

\* AddResults, the loop: the three arrays, each appended to once per record
RECURSIVE AddResultsArrays(_, _)
AddResultsArrays(results, arr) ==
    IF results = <<>> THEN arr
    ELSE LET r == Head(results)
         IN AddResultsArrays(Tail(results),
                [result |-> Append(arr.result, r.Result),
                 result_type |-> Append(arr.result_type, ResultType(r.Data)),
                 result_subtype |-> Append(arr.result_subtype, r.Subtype)])

NoRequest == [sent |-> FALSE]

\* the form AddResults posts; nothing is posted for an empty batch
AddResultsRequest(results) ==
    IF results = <<>> THEN NoRequest
    ELSE LET arr == AddResultsArrays(results,
                        [result |-> <<>>, result_type |-> <<>>, result_subtype |-> <<>>])
         IN [sent |-> TRUE, result_is_batch |-> "true", result |-> arr.result,
             result_subtype |-> arr.result_subtype, result_type |-> arr.result_type]

\* parseMsg of parse_and_submit up to the spawn of reportToCrits
ReporterParse(body) ==
    LET m == FeedCuckooReq(body) IN
    IF Unmarshal(body) # NoErr
    THEN [err |-> Unmarshal(body), desc |-> "Could not decode json!"]
    ELSE IF ValidateFeedCuckooReq(m) # NoErr
    THEN [err |-> ValidateFeedCuckooReq(m), desc |-> "Error in msg from check_results service!"]
    ELSE [err |-> NoErr, desc |-> ""]

ReporterTask(w, tag, pc, inParse) ==
    [w |-> w, tag |-> tag, pc |-> pc, inParse |-> inParse, report |-> NoReport,
     dropped |-> <<>>]

\* the configuration file of an instance of parse_and_submit
ConfOf(w) == IF w = SecondReporter THEN conf.second ELSE conf

\* parseMsg of the instance w of parse_and_submit
ReporterParseMsgAt(w) ==
    /\ CanConsume(w)
    /\ LET d == NextDelivery(w)
           r == ReporterParse(d.Body)
           q == ConsumerQueue(w)
       IN /\ deliveries' = Append(deliveries, d)
          /\ unacked' = unacked \cup {d.tag}
          /\ IF r.err # NoErr
             THEN /\ queues' = Send([queues EXCEPT ![q] = Tail(@)], FailedQueue,
                                    NackOnErrorMsg(ServiceName(w), d, r.err, r.desc))
                  /\ hist' = Append(hist, NackOnErrorSend(ServiceName(w), d, r.err, r.desc))
                  /\ tasks' = tasks \cup {ReporterTask(w, d.tag, "Nack", TRUE)}
             ELSE /\ queues' = [queues EXCEPT ![q] = Tail(@)]
                  /\ hist' = Append(hist, <<>>)
                  /\ tasks' = tasks \cup {ReporterTask(w, d.tag, "TaskReport", FALSE)}
    /\ UNCHANGED <<alive, conf, sandbox, watchMap, loop, failedMap, dumpDir, crits, published,
                   crashes>>

\* parseMsg of parse_and_submit
ReporterParseMsg == ReporterParseMsgAt(Reporter)

\* reportToCrits: cuckoo.TaskReport, and the shaping of info, signatures and
\* behavior, which is done in memory
ReporterTaskReport(t, resp, report) ==
    /\ t.w \in Reporters /\ t.pc = "TaskReport"
    /\ LET d == deliveries[t.tag]
           err == TaskReport(resp)
           desc == "Couldn't load report from cuckoo!"
       IN IF err = "panic" \/ (err = NoErr /\ ShapingPanics(report, ConfOf(t.w).EnabledParsers))
          THEN /\ Panic(t.w, Log(hist, t.tag,
                                         <<EvTaskReport(resp, IF err = NoErr THEN report
                                                              ELSE NoReport)>>))
               /\ UNCHANGED <<deliveries, conf, sandbox, dumpDir, crits, published>>
          ELSE IF err # NoErr
          THEN /\ queues' = Send(queues, FailedQueue,
                                 NackOnErrorMsg(ServiceName(t.w), d, err, desc))
               /\ hist' = Log(hist, t.tag,
                              <<EvTaskReport(resp, NoReport)>>
                              \o NackOnErrorSend(ServiceName(t.w), d, err, desc))
               /\ tasks' = (tasks \ {t}) \cup {[t EXCEPT !.pc = "Nack"]}
               /\ UNCHANGED <<deliveries, unacked, alive, conf, sandbox, watchMap, loop,
                              failedMap, dumpDir, crits, published, crashes>>
          ELSE /\ hist' = Log(hist, t.tag, <<EvTaskReport(resp, report)>>)
               /\ tasks' = (tasks \ {t}) \cup
                              {[t EXCEPT !.report = report,
                                         !.pc = IF "dropped" \in ConfOf(t.w).EnabledParsers
                                                THEN "Dropped" ELSE "AddResults"]}
               /\ UNCHANGED <<queues, deliveries, unacked, alive, conf, sandbox, watchMap, loop,
                              failedMap, dumpDir, crits, published, crashes>>

\* reportToCrits: processDropped uploads the dropped files to the repository;
\* its error is logged and the records it returned are kept
ReporterDropped(t, archive) ==
    /\ t.w \in Reporters /\ t.pc = "Dropped"
    /\ LET r == processDropped(archive)
           m == FeedCuckooReq(deliveries[t.tag].Body)
       IN IF r.err = "panic"
          THEN /\ Panic(t.w, hist)
               /\ UNCHANGED <<deliveries, conf, sandbox, dumpDir, crits, published>>
          ELSE /\ hist' = Log(hist, t.tag, <<EvDropped(archive, r.results)>>)
               /\ tasks' = (tasks \ {t}) \cup
                              {[t EXCEPT !.dropped = r.results, !.pc = "AddResults"]}
               /\ crits' = crits \cup
                     (IF GetDropped(archive.get) # NoErr THEN {}
                      ELSE {[k |-> "sample", AnalysisId |-> m.CritsData.AnalysisId, name |-> n] :
                               n \in Uploaded(archive.entries)})
               /\ UNCHANGED <<queues, deliveries, unacked, alive, conf, sandbox, watchMap, loop,
                              failedMap, dumpDir, published, crashes>>

\* where reportToCrits goes on after a step that has succeeded
AfterAddResults(c) == IF c.CuckooCleanup THEN "DeleteTask"
                      ELSE IF c.ProducerQueue # "" THEN "Send" ELSE "Ack"
AfterDeleteTask_Ack(c) == "Ack"

AfterDeleteTask(c) == IF c.ProducerQueue # "" THEN "Send" ELSE "Ack"

\* reportToCrits: crits.AddResults pushes the batch, or NackOnError; an empty
\* batch is not sent and cannot fail
ReporterAddResults(t, ok) ==
    /\ t.w \in Reporters /\ t.pc = "AddResults"
    /\ LET d == deliveries[t.tag]
           m == FeedCuckooReq(d.Body)
           resStructs == ShapeReport(t.report, ConfOf(t.w).EnabledParsers,
                                     ConfOf(t.w).PushApiCallsMax)
                         \o t.dropped
           request == AddResultsRequest(resStructs)
           ev == EvBatch(t.report, resStructs, request)
           err == "400 Bad Request"
           desc == "Adding results to crits failed!"
       IN /\ ~request.sent => ok
          /\ IF ok
             THEN /\ crits' = crits \cup
                       (IF request.sent
                        THEN {[k |-> "results", AnalysisId |-> m.CritsData.AnalysisId,
                               TaskId |-> m.TaskId, request |-> request]}
                        ELSE {})
                  /\ queues' = queues
                  /\ hist' = Log(hist, t.tag, <<ev, EvAddResults(ok)>>)
                  /\ tasks' = (tasks \ {t}) \cup {[t EXCEPT !.pc = AfterAddResults(ConfOf(t.w))]}
             ELSE /\ crits' = crits
                  /\ queues' = Send(queues, FailedQueue,
                                    NackOnErrorMsg(ServiceName(t.w), d, err, desc))
                  /\ hist' = Log(hist, t.tag,
                                 <<ev, EvAddResults(ok)>>
                                 \o NackOnErrorSend(ServiceName(t.w), d, err, desc))
                  /\ tasks' = (tasks \ {t}) \cup {[t EXCEPT !.pc = "Nack"]}
    /\ UNCHANGED <<deliveries, unacked, alive, conf, sandbox, watchMap, loop, failedMap, dumpDir,
                   published, crashes>>

\* reportToCrits: cuckoo.DeleteTask when cuckooCleanup is set; an error is logged
ReporterDeleteTask(t, ok) ==
    /\ t.w \in Reporters /\ t.pc = "DeleteTask"
    /\ hist' = Log(hist, t.tag, <<EvDeleteTask(ok)>>)
    /\ tasks' = (tasks \ {t}) \cup {[t EXCEPT !.pc = AfterDeleteTask(ConfOf(t.w))]}
    /\ UNCHANGED <<queues, deliveries, unacked, alive, conf, sandbox, watchMap, loop, failedMap,
                   dumpDir, crits, published, crashes>>

\* reportToCrits: producer.Send(msg.Body) when a producer queue is configured
ReporterSend(t) ==
    /\ t.w \in Reporters /\ t.pc = "Send"
    /\ LET body == deliveries[t.tag].Body
           q == ConfOf(t.w).ProducerQueue
       IN /\ queues' = Send(queues, q, body)
          /\ hist' = Log(hist, t.tag, <<EvSend(q, body)>>)
    /\ tasks' = (tasks \ {t}) \cup {[t EXCEPT !.pc = "Ack"]}
    /\ UNCHANGED <<deliveries, unacked, alive, conf, sandbox, watchMap, loop, failedMap, dumpDir,
                   crits, published, crashes>>

-----------------------------------------------------------------------------
(* overseer *)

EvCount(n) == [e |-> "count", n |-> n]
EvDump(name) == [e |-> "dump", name |-> name]

\* the body "" of a FailedMsg no key of the JSON object has filled
EmptyMsg == RawBody(0, "valid")

\* the FailedMsg a body decodes into
DecodeFailedMsg(body) ==
    IF body.k = "failed" THEN body
    ELSE [k |-> "failed", Service |-> "", Queue |-> "", Error |-> "", Desc |-> "", Msg |-> EmptyMsg]

\* the genericMsg a FailedMsg.Msg decodes into: CritsData is filled from the
\* key "CritsData", CritsDataJ from the key "crits_data"
genericMsg(msg) ==
    [CritsData |-> IF msg.k = "task" THEN msg.CritsData ELSE NilCrits,
     CritsDataJ |-> IF msg.k = "submit" THEN msg.crits_data ELSE NilCrits]

HandleFailedAid_Retry(failed) == [dump |-> FALSE, aid |-> 0]

\* handleFailed up to the counting: the analysis id, or the reason to dump
HandleFailedAid(failed) ==
    LET payload == genericMsg(failed.Msg) IN
    IF Unmarshal(failed.Msg) # NoErr THEN [dump |-> TRUE, aid |-> 0]
    ELSE IF ~payload.CritsData.nil THEN [dump |-> FALSE, aid |-> payload.CritsData.AnalysisId]
    ELSE IF ~payload.CritsDataJ.nil THEN [dump |-> FALSE, aid |-> payload.CritsDataJ.AnalysisId]
    ELSE [dump |-> TRUE, aid |-> 0]

OverseerTask(tag, pc, inParse, aid) ==
    [w |-> Overseer, tag |-> tag, pc |-> pc, inParse |-> inParse, aid |-> aid, n |-> 0,
     lock |-> FALSE]

\* parseMsg of overseer and the start of handleFailed: a body that is no
\* FailedMsg is dumped by the receiving goroutine itself, a payload without
\* analysis id by the handleFailed goroutine
OverseerParseMsg ==
    /\ CanConsume(Overseer)
    /\ LET d == NextDelivery(Overseer)
           r == HandleFailedAid(DecodeFailedMsg(d.Body))
       IN /\ deliveries' = Append(deliveries, d)
          /\ unacked' = unacked \cup {d.tag}
          /\ queues' = [queues EXCEPT ![FailedQueue] = Tail(@)]
          /\ hist' = Append(hist, <<>>)
          /\ tasks' = tasks \cup
                {IF Unmarshal(d.Body) # NoErr THEN OverseerTask(d.tag, "dump", TRUE, 0)
                 ELSE IF r.dump THEN OverseerTask(d.tag, "dump", FALSE, 0)
                 ELSE OverseerTask(d.tag, "load", FALSE, r.aid)}
    /\ UNCHANGED <<alive, conf, sandbox, watchMap, loop, failedMap, dumpDir, crits, published,
                   crashes>>

\* handleFailed: failedMap[aid] += 1 reads the counter ...
OverseerLoad(t) ==
    /\ t.w = Overseer /\ t.pc = "load"
    /\ tasks' = (tasks \ {t}) \cup {[t EXCEPT !.pc = "store", !.n = failedMap[t.aid]]}
    /\ UNCHANGED <<queues, deliveries, unacked, hist, alive, conf, sandbox, watchMap, loop,
                   failedMap, dumpDir, crits, published, crashes>>

\* ... and writes it back, without a lock: two goroutines writing the map at
\* once may end the process ("concurrent map writes")
OverseerStore(t, fatal) ==
    /\ t.w = Overseer /\ t.pc = "store"
    /\ IF fatal
       THEN /\ \E t2 \in tasks \ {t} : t2.w = Overseer /\ t2.pc = "store"
            /\ Panic(Overseer, hist)
            /\ UNCHANGED <<deliveries, conf, sandbox, dumpDir, crits, published>>
       ELSE /\ failedMap' = [failedMap EXCEPT ![t.aid] = t.n + 1]
            /\ tasks' = (tasks \ {t}) \cup {[t EXCEPT !.pc = "test"]}
            /\ hist' = Log(hist, t.tag, <<EvCount(t.n + 1)>>)
            /\ UNCHANGED <<queues, deliveries, unacked, alive, conf, sandbox, watchMap, loop,
                           dumpDir, crits, published, crashes>>

\* handleFailed: "if failedMap[aid] > 3" decides between dump and resubmit
OverseerTest(t) ==
    /\ t.w = Overseer /\ t.pc = "test"
    /\ tasks' = (tasks \ {t}) \cup
                   {[t EXCEPT !.pc = IF failedMap[t.aid] > MaxFailures THEN "dump" ELSE "resubmit"]}
    /\ UNCHANGED <<queues, deliveries, unacked, hist, alive, conf, sandbox, watchMap, loop,
                   failedMap, dumpDir, crits, published, crashes>>

\* resubmit, after the sleep: failed.Msg goes to the queue failed.Queue names
\* (strconv.Unquote fails on a JSON object and leaves the text as it is)
OverseerResubmit(t) ==
    /\ t.w = Overseer /\ t.pc = "resubmit"
    /\ LET failed == DecodeFailedMsg(deliveries[t.tag].Body)
       IN /\ queues' = Send(queues, failed.Queue, failed.Msg)
          /\ hist' = Log(hist, t.tag, <<EvSend(failed.Queue, failed.Msg)>>)
    /\ tasks' = (tasks \ {t}) \cup {[t EXCEPT !.pc = "Ack"]}
    /\ UNCHANGED <<deliveries, unacked, alive, conf, sandbox, watchMap, loop, failedMap, dumpDir,
                   crits, published, crashes>>

\* a dumpMsg that does not look for a free name
FreeCounter_First(dir, counter) == counter

\* the name dumpMsg finds: <unix time>_<counter> with the first free counter
\* (the model's clock stands still)
RECURSIVE FreeCounter(_, _)
FreeCounter(dir, counter) ==
    IF \E f \in dir : f.name = counter THEN FreeCounter(dir, counter + 1) ELSE counter

\* dumpMsg: under fsMutex, the body of the delivery is written to a new file
OverseerDump(t) ==
    /\ t.w = Overseer /\ t.pc = "dump"
    /\ ~\E t2 \in tasks : t2.w = Overseer /\ t2.lock
    /\ LET name == FreeCounter(dumpDir, 0)
       IN /\ dumpDir' = dumpDir \cup {[name |-> name, content |-> deliveries[t.tag].Body]}
          /\ hist' = Log(hist, t.tag, <<EvDump(name)>>)
    /\ tasks' = (tasks \ {t}) \cup {[t EXCEPT !.pc = "Ack", !.lock = TRUE]}
    /\ UNCHANGED <<queues, deliveries, unacked, alive, conf, sandbox, watchMap, loop, failedMap,
                   crits, published, crashes>>

\* the Overseer binary run with -resubmitDumped
ResubmitMode == "overseer -resubmitDumped"

\* a directory inside the dump directory
DirEntry == [name |-> -1, content |-> [k |-> "dir"]]
IsDir(f) == f.content.k = "dir"

\* ioutil.ReadDir: the entries sorted by name
ReadDir(dir) ==
    LET names == SortedSeq({f.name : f \in dir})
    IN [i \in DOMAIN names |->
           [name |-> names[i], IsDir |-> \E f \in dir : f.name = names[i] /\ IsDir(f)]]

\* the bytes ioutil.ReadAll reads from the file of that name; os.OpenFile has
\* O_CREATE, so a file that is not there is created empty
ReadAll(dir, name) ==
    IF \E f \in dir : f.name = name THEN (CHOOSE f \in dir : f.name = name).content
    ELSE EmptyMsg

Removed_None(dir, name) == dir

\* os.Remove
Removed(dir, name) == {f \in dir : f.name # name}

ResubmitTask(files, dir) ==
    [w |-> ResubmitMode, tag |-> 0, pc |-> "file", inParse |-> FALSE, files |-> files, i |-> 1,
     contents |-> EmptyMsg, dir |-> dir, sent |-> <<>>]

\* main with the flag set, up to ioutil.ReadDir in resubmitDumped; the
\* consuming Overseer has been stopped and holds no delivery
ResubmitStart ==
    /\ alive[Overseer]
    /\ TagsOf(Overseer) = {}
    /\ ~\E t \in tasks : t.w \in {Overseer, ResubmitMode}
    /\ alive' = [alive EXCEPT ![Overseer] = FALSE]
    /\ tasks' = tasks \cup {ResubmitTask(ReadDir(dumpDir), dumpDir)}
    /\ UNCHANGED <<queues, deliveries, unacked, hist, conf, sandbox, watchMap, loop, failedMap,
                   dumpDir, crits, published, crashes>>

\* resubmitDumped: the next entry; a directory is skipped, a file is read
ResubmitRead(t) ==
    /\ t.w = ResubmitMode /\ t.pc = "file"
    /\ tasks' = (tasks \ {t}) \cup
          {IF t.i > Len(t.files) THEN [t EXCEPT !.pc = "done"]
           ELSE IF t.files[t.i].IsDir THEN [t EXCEPT !.i = @ + 1]
           ELSE [t EXCEPT !.pc = "send", !.contents = ReadAll(dumpDir, t.files[t.i].name)]}
    /\ UNCHANGED <<queues, deliveries, unacked, hist, alive, conf, sandbox, watchMap, loop,
                   failedMap, dumpDir, crits, published, crashes>>

\* resubmitDumped: failed.Send(contents), to the queue the Overseer consumes
ResubmitSend(t) ==
    /\ t.w = ResubmitMode /\ t.pc = "send"
    /\ queues' = Send(queues, ConsumerQueue(Overseer), t.contents)
    /\ tasks' = (tasks \ {t}) \cup
          {[t EXCEPT !.pc = "remove",
                     !.sent = Append(@, [name |-> t.files[t.i].name, body |-> t.contents])]}
    /\ UNCHANGED <<deliveries, unacked, hist, alive, conf, sandbox, watchMap, loop, failedMap,
                   dumpDir, crits, published, crashes>>

\* resubmitDumped: os.Remove(fname)
ResubmitRemove(t) ==
    /\ t.w = ResubmitMode /\ t.pc = "remove"
    /\ dumpDir' = Removed(dumpDir, t.files[t.i].name)
    /\ tasks' = (tasks \ {t}) \cup {[t EXCEPT !.pc = "file", !.i = @ + 1]}
    /\ UNCHANGED <<queues, deliveries, unacked, hist, alive, conf, sandbox, watchMap, loop,
                   failedMap, crits, published, crashes>>

-----------------------------------------------------------------------------
(* The environment: what is published to the workers' queues *)

SubmitInputs(id) ==
    {RawBody(id, "valid"), RawBody(id, "invalid"),
     SubmitBody(id, NilFile, CritsData(id)),
     SubmitBody(id, FileMap(FALSE, "", TRUE, GoodB64), CritsData(id)),
     SubmitBody(id, FileMap(TRUE, "", TRUE, GoodB64), CritsData(id)),
     SubmitBody(id, FileMap(TRUE, "a.exe", FALSE, ""), CritsData(id)),
     SubmitBody(id, FileMap(TRUE, "a.exe", TRUE, ""), CritsData(id)),
     SubmitBody(id, FileMap(TRUE, "a.exe", TRUE, GoodB64), NilCrits),
     SubmitBody(id, FileMap(TRUE, "a.exe", TRUE, BadB64), CritsData(id)),
     SubmitBody(id, FileMap(TRUE, "a.exe", TRUE, GoodB64), CritsData(id))}

\* CRITs (or anybody) publishes to the submit queue
PublishSubmit ==
    /\ published < MaxPublish
    /\ \E body \in SubmitInputs(published + 1) :
          queues' = Send(queues, SubmitQueue, body)
    /\ published' = published + 1
    /\ UNCHANGED <<deliveries, unacked, hist, tasks, alive, conf, sandbox, watchMap, loop,
                   failedMap, dumpDir, crits, crashes>>

PendingInputs(id) ==
    {RawBody(id, "valid"), RawBody(id, "invalid"),
     TaskBody(0, CuckooURL, CritsData(1)),
     TaskBody(id, "", CritsData(1)),
     TaskBody(id, CuckooURL, NilCrits),
     TaskBody(id, CuckooURL, CritsData(1)),
     TaskBody(id, CuckooURL, CritsData(2))}

SampleInputs(id) ==
    {RawBody(id, "invalid"),
     SubmitBody(id, FileMap(TRUE, "a.exe", TRUE, BadB64), CritsData(id)),
     SubmitBody(id, FileMap(TRUE, "a.exe", TRUE, GoodB64), CritsData(id))}

\* CRITs submits a sample to the pipeline
PublishSample ==
    /\ published < MaxSamples
    /\ \E body \in SampleInputs(published + 1) :
          queues' = Send(queues, SubmitQueue, body)
    /\ published' = published + 1
    /\ UNCHANGED <<deliveries, unacked, hist, tasks, alive, conf, sandbox, watchMap, loop,
                   failedMap, dumpDir, crits, crashes>>

\* somebody publishes to the pending queue
PublishPending ==
    /\ published < MaxPublish
    /\ \E body \in PendingInputs(published + 1) :
          queues' = Send(queues, PendingQueue, body)
    /\ published' = published + 1
    /\ UNCHANGED <<deliveries, unacked, hist, tasks, alive, conf, sandbox, watchMap, loop,
                   failedMap, dumpDir, crits, crashes>>

\* somebody publishes to the ready queue
PublishReady ==
    /\ published < MaxPublish
    /\ \E body \in PendingInputs(published + 1) :
          queues' = Send(queues, ReadyQueue, body)
    /\ published' = published + 1
    /\ UNCHANGED <<deliveries, unacked, hist, tasks, alive, conf, sandbox, watchMap, loop,
                   failedMap, dumpDir, crits, crashes>>

\* a FailedMsg as a worker would have sent it
Envelope(q, msg) ==
    Marshal([k |-> "failed", Service |-> Feeder, Queue |-> q, Error |-> ErrSyntax,
             Desc |-> "Could not decode json!", Msg |-> msg])

FailedInputs ==
    {RawBody(0, "valid"),
     TaskBody(1, CuckooURL, CritsData(1)),
     Envelope(SubmitQueue, RawBody(0, "invalid")),
     Envelope(SubmitQueue, SubmitBody(1, FileMap(TRUE, "a.exe", TRUE, GoodB64), NilCrits)),
     Envelope(SubmitQueue, SubmitBody(1, FileMap(TRUE, "a.exe", TRUE, BadB64), CritsData(1))),
     Envelope(PendingQueue, TaskBody(1, CuckooURL, CritsData(1)))}

\* somebody publishes to the failed queue
PublishFailed ==
    /\ published < MaxEnvelopes
    /\ \E body \in FailedInputs :
          queues' = Send(queues, FailedQueue, body)
    /\ published' = published + 1
    /\ UNCHANGED <<deliveries, unacked, hist, tasks, alive, conf, sandbox, watchMap, loop,
                   failedMap, dumpDir, crits, crashes>>

\* the reports and archives the sandbox answers with
OneSignatureReport ==
    CkoTasksReport(NilInfo, <<CkoTasksReportSignature(1)>>, NilBehavior)
NoSummaryReport ==
    CkoTasksReport(NilInfo, <<>>, CkoTasksReportBehavior(<<>>, NilSummary))
HandlerReports == {OneSignatureReport, NoSummaryReport}

OneFileArchive == Archive("ok", <<TarEntry("d.dll", "ok", TRUE, "ok", "ok")>>)
HandlerArchives == {Archive("transport", <<>>), Archive("non200", <<>>), OneFileArchive}

\* the reports the shaping is checked on
Infos == {NilInfo, CkoTasksReportInfo(JSONString("win7"))}
SignatureLists == {[k \in 1 .. n |-> CkoTasksReportSignature(k)] : n \in 0 .. MaxSignatures}
CallCounts == UNION {[1 .. n -> {0, 2}] : n \in 0 .. MaxProcesses}
ProcessLists == {[p \in DOMAIN cs |-> CkoTasksReportBhvPcs(p, cs[p])] : cs \in CallCounts}
Summaries ==
    {NilSummary, CkoTasksReportBhvSummary(<<>>, <<>>, <<>>),
     CkoTasksReportBhvSummary(<<"a.txt">>, <<"HKLM\\Run", "HKCU\\Run">>, <<"mtx">>)}
Behaviors ==
    {NilBehavior} \cup {CkoTasksReportBehavior(ps, sm) : ps \in ProcessLists, sm \in Summaries}
ShapingReports ==
    {CkoTasksReport(i, sigs, b) : i \in Infos, sigs \in SignatureLists, b \in Behaviors}

\* the shapes of info.machine the extraction of the machine name is checked on
MachineShapes ==
    {JSONString("win7"), JSONString(""), JSONObject(TRUE, "win10"), JSONObject(FALSE, ""),
     JSONNull, JSONNumber, JSONMissing}
InfoReports ==
    {CkoTasksReport(NilInfo, <<>>, NilBehavior)} \cup
    {CkoTasksReport(CkoTasksReportInfo(m), <<>>, NilBehavior) : m \in MachineShapes}

\* the reports without content: info absent or an empty object, no signatures,
\* behavior absent, an empty object, or an object with an empty summary
EmptyInfo == [nil |-> FALSE, Started |-> "", Ended |-> "", Id |-> 0, Machine |-> JSONMissing]
EmptyBehaviors ==
    {NilBehavior, CkoTasksReportBehavior(<<>>, NilSummary),
     CkoTasksReportBehavior(<<>>, CkoTasksReportBhvSummary(<<>>, <<>>, <<>>))}
EmptyReports == {CkoTasksReport(i, <<>>, b) : i \in {NilInfo, EmptyInfo}, b \in EmptyBehaviors}

ShapingArchives ==
    {Archive("transport", <<>>), Archive("ok", <<>>), OneFileArchive,
     Archive("ok", <<TarEntry("dir", "ok", FALSE, "ok", "ok"),
                     TarEntry("e.tmp", "ok", TRUE, "empty", "ok"),
                     TarEntry("a.dll", "ok", TRUE, "ok", "ok"),
                     TarEntry("b.dll", "ok", TRUE, "ok", "fail"),
                     TarEntry("c.dll", "ok", TRUE, "ok", "ok")>>),
     Archive("ok", <<TarEntry("a.dll", "ok", TRUE, "ok", "ok"),
                     TarEntry("b.dll", "bad", TRUE, "ok", "ok")>>)}

\* the configuration files: checkFreeSpace of feed_cuckoo; CuckooCleanup,
\* ProducerQueue, PushApiCallsMax and EnabledParsers of parse_and_submit
Conf(checkFreeSpace, cleanup, producer, max, parsers) ==
    [checkFreeSpace |-> checkFreeSpace, CuckooCleanup |-> cleanup, ProducerQueue |-> producer,
     PushApiCallsMax |-> max, EnabledParsers |-> parsers]

\* the process of worker w is killed; the broker requeues what was unacknowledged
Crash(w) ==
    /\ alive[w]
    /\ Panic(w, hist)
    /\ UNCHANGED <<deliveries, conf, sandbox, dumpDir, crits, published>>

\* the process of worker w is started again
Restart(w) ==
    /\ ~alive[w]
    /\ alive' = [alive EXCEPT ![w] = TRUE]
    /\ UNCHANGED <<queues, deliveries, unacked, hist, tasks, conf, sandbox, watchMap, loop,
                   failedMap, dumpDir, crits, published, crashes>>

-----------------------------------------------------------------------------
(* Specifications *)

EmptyQueues == [q \in QueueNames |-> <<>>]

\* the state after the workers have started, with the given queue contents and
\* configuration
Start(qs, c, dir) ==
    /\ queues = qs
    /\ deliveries = <<>>
    /\ unacked = {}
    /\ hist = <<>>
    /\ tasks = {}
    /\ alive = [w \in Instances |-> TRUE]
    /\ conf = c
    /\ sandbox = [Pending |-> 0, Free |-> FreeLimit, nextId |-> 1, reported |-> {}]
    /\ watchMap = {}
    /\ loop = IdleLoop
    /\ failedMap = EmptyFailedMap
    /\ dumpDir = dir
    /\ crits = {}
    /\ published = 0
    /\ crashes = 0

\* a Reporter that pushes signatures and behavior, without cleanup and chaining
Init ==
    \E b \in BOOLEAN : Start(EmptyQueues, Conf(b, FALSE, "", 0, {"signatures", "behavior"}), {})

NextFeeder ==
    \/ PublishSubmit
    \/ SandboxRun
    \/ SandboxDisk
    \/ FeederParseMsg
    \/ \E t \in tasks, resp \in {"ok", "nodisk", "fail"} : FeederGetStatus(t, resp)
    \/ \E t \in tasks, ok \in BOOLEAN : FeederNewTask(t, ok)
    \/ \E t \in tasks : TaskAck(t)
    \/ \E t \in tasks : TaskNack(t)

SpecFeeder == Init /\ [][NextFeeder]_vars

NextWatcher ==
    \/ PublishPending
    \/ \E visit \in BOOLEAN : WatcherParseMsg(visit)
    \/ WatcherParseMsgRace
    \/ LoopStart
    \/ LoopNext
    \/ \E resp \in TaskStatusResps : LoopTaskStatus(resp)
    \/ LoopAck
    \/ LoopNack
    \/ \E t \in tasks : TaskNack(t)

SpecWatcher == Init /\ [][NextWatcher]_vars

NextOverseer ==
    \/ PublishFailed
    \/ OverseerParseMsg
    \/ \E t \in tasks : OverseerLoad(t)
    \/ \E t \in tasks, fatal \in BOOLEAN : OverseerStore(t, fatal)
    \/ \E t \in tasks : OverseerTest(t)
    \/ \E t \in tasks : OverseerResubmit(t)
    \/ \E t \in tasks : OverseerDump(t)
    \/ \E t \in tasks : TaskAck(t)

SpecOverseer == Init /\ [][NextOverseer]_vars

FeederStep ==
    \/ FeederParseMsg
    \/ \E t \in tasks, resp \in {"ok", "nodisk", "fail"} : FeederGetStatus(t, resp)
    \/ \E t \in tasks, ok \in BOOLEAN : FeederNewTask(t, ok)

WatcherStep ==
    \/ \E visit \in BOOLEAN : WatcherParseMsg(visit)
    \/ WatcherParseMsgRace
    \/ LoopStart
    \/ LoopNext
    \/ \E resp \in TaskStatusResps : LoopTaskStatus(resp)
    \/ LoopAck
    \/ LoopNack

ReporterStep ==
    \/ ReporterParseMsg
    \/ \E t \in tasks, resp \in TaskReportResps, report \in HandlerReports :
          ReporterTaskReport(t, resp, report)
    \/ \E t \in tasks, ok \in BOOLEAN : ReporterAddResults(t, ok)

OverseerStep ==
    \/ OverseerParseMsg
    \/ \E t \in tasks : OverseerLoad(t)
    \/ \E t \in tasks, fatal \in BOOLEAN : OverseerStore(t, fatal)
    \/ \E t \in tasks : OverseerTest(t)
    \/ \E t \in tasks : OverseerResubmit(t)
    \/ \E t \in tasks : OverseerDump(t)

\* Feeder, Watcher and Reporter, each fed by the environment
Next ==
    \/ PublishSubmit
    \/ PublishPending
    \/ PublishReady
    \/ FeederStep
    \/ WatcherStep
    \/ ReporterStep
    \/ \E t \in tasks : TaskAck(t)
    \/ \E t \in tasks : TaskNack(t)

Spec == Init /\ [][Next]_vars

\* the whole pipeline, with processes that are killed and started again; of the
\* failures of the sandbox and the repository, one per stage is taken
NextCrash ==
    \/ PublishSample
    \/ SandboxRun
    \/ FeederParseMsg
    \/ \E t \in tasks : FeederGetStatus(t, "ok")
    \/ \E t \in tasks, ok \in BOOLEAN : FeederNewTask(t, ok)
    \/ WatcherParseMsg(FALSE)
    \/ LoopStart
    \/ LoopNext
    \/ \E resp \in {"transport", "reported"} : LoopTaskStatus(resp)
    \/ LoopAck
    \/ LoopNack
    \/ ReporterParseMsg
    \/ \E t \in tasks : ReporterTaskReport(t, "ok", OneSignatureReport)
    \/ \E t \in tasks, ok \in BOOLEAN : ReporterAddResults(t, ok)
    \/ OverseerParseMsg
    \/ \E t \in tasks : OverseerLoad(t)
    \/ \E t \in tasks : OverseerStore(t, FALSE)
    \/ \E t \in tasks : OverseerTest(t)
    \/ \E t \in tasks : OverseerResubmit(t)
    \/ \E t \in tasks : OverseerDump(t)
    \/ \E t \in tasks : TaskAck(t)
    \/ \E t \in tasks : TaskNack(t)
    \/ \E w \in Workers : Crash(w)
    \/ \E w \in Workers : Restart(w)

SpecCrash == Init /\ [][NextCrash]_vars

\* submissions that fail at the Feeder every time they are processed
RetryInputs(id) ==
    {SubmitBody(id, FileMap(TRUE, IF id = 1 THEN BadUTF8Name ELSE "a.exe", TRUE, BadB64),
                CritsData(id))}

PublishRetry ==
    /\ published < MaxPublish
    /\ \E body \in RetryInputs(published + 1) :
          queues' = Send(queues, SubmitQueue, body)
    /\ published' = published + 1
    /\ UNCHANGED <<deliveries, unacked, hist, tasks, alive, conf, sandbox, watchMap, loop,
                   failedMap, dumpDir, crits, crashes>>

InitRetry ==
    Start(EmptyQueues,
          Conf(FALSE, FALSE, "", 0, {}) @@ [deliveries |-> MaxRetryDeliveries], {})

FeederRetryStep ==
    \/ FeederParseMsg
    \/ \E t \in tasks : t.w = Feeder /\ TaskNack(t)

OverseerRetryStep ==
    \/ OverseerParseMsg
    \/ \E t \in tasks : OverseerLoad(t)
    \/ \E t \in tasks, fatal \in BOOLEAN : OverseerStore(t, fatal)
    \/ \E t \in tasks : OverseerTest(t)
    \/ \E t \in tasks : OverseerResubmit(t)
    \/ \E t \in tasks : OverseerDump(t)
    \/ \E t \in tasks : t.w = Overseer /\ TaskAck(t)

NextRetry == PublishRetry \/ FeederRetryStep \/ OverseerRetryStep

\* the retry cycle between the Feeder and the Overseer; both are scheduled
\* fairly: a goroutine that can run does run
SpecRetry ==
    InitRetry /\ [][NextRetry]_vars /\ WF_vars(FeederRetryStep) /\ WF_vars(OverseerRetryStep)

\* the retry cycle with an Overseer that is stopped and started again
NextRestart ==
    \/ PublishRetry
    \/ FeederRetryStep
    \/ OverseerRetryStep
    \/ Crash(Overseer)
    \/ Restart(Overseer)

\* one delivery at a time, as many deliveries as four rounds of the cycle take
InitRestart ==
    Start(EmptyQueues,
          Conf(FALSE, FALSE, "", 0, {}) @@
             [deliveries |-> MaxRestartDeliveries, PrefetchCount |-> 1], {})

SpecRestart == InitRestart /\ [][NextRestart]_vars

\* what the Overseer dumps at once
DumpInputs ==
    {RawBody(0, "invalid")} \cup
    {b \in FailedInputs : Unmarshal(b) # NoErr \/ HandleFailedAid(DecodeFailedMsg(b)).dump}

PublishDumped ==
    /\ published < MaxEnvelopes
    /\ \E body \in DumpInputs :
          queues' = Send(queues, FailedQueue, body)
    /\ published' = published + 1
    /\ UNCHANGED <<deliveries, unacked, hist, tasks, alive, conf, sandbox, watchMap, loop,
                   failedMap, dumpDir, crits, crashes>>

\* the Overseer dumps, is stopped, and is run in resubmit mode
InitResubmit ==
    \E dir \in {{}, {DirEntry}} : Start(EmptyQueues, Conf(FALSE, FALSE, "", 0, {}), dir)

NextResubmit ==
    \/ PublishDumped
    \/ OverseerParseMsg
    \/ \E t \in tasks : OverseerDump(t)
    \/ \E t \in tasks : TaskAck(t)
    \/ ResubmitStart
    \/ \E t \in tasks : ResubmitRead(t)
    \/ \E t \in tasks : ResubmitSend(t)
    \/ \E t \in tasks : ResubmitRemove(t)

SpecResubmit == InitResubmit /\ [][NextResubmit]_vars

\* a submission with its context, and messages that have none, at each stage
ContextInputs(id) ==
    {<<SubmitQueue, SubmitBody(id, FileMap(TRUE, "a.exe", TRUE, GoodB64), CritsData(id))>>,
     <<SubmitQueue, SubmitBody(id, FileMap(TRUE, "a.exe", TRUE, GoodB64), NilCrits)>>,
     <<PendingQueue, TaskBody(id, CuckooURL, NilCrits)>>,
     <<ReadyQueue, TaskBody(id, CuckooURL, NilCrits)>>}

PublishContext ==
    /\ published < MaxPublish
    /\ \E in \in ContextInputs(published + 1) :
          queues' = Send(queues, in[1], in[2])
    /\ published' = published + 1
    /\ UNCHANGED <<deliveries, unacked, hist, tasks, alive, conf, sandbox, watchMap, loop,
                   failedMap, dumpDir, crits, crashes>>

\* the four workers in a row, the Reporter chained to a producer queue
InitContext == Start(EmptyQueues, Conf(FALSE, FALSE, ChainQueue, 0, {"signatures"}), {})

NextContext ==
    \/ PublishContext
    \/ FeederParseMsg
    \/ \E t \in tasks : FeederGetStatus(t, "ok")
    \/ \E t \in tasks, ok \in BOOLEAN : FeederNewTask(t, ok)
    \/ WatcherParseMsg(FALSE)
    \/ LoopStart
    \/ LoopNext
    \/ \E resp \in {"transport", "reported"} : LoopTaskStatus(resp)
    \/ LoopAck
    \/ LoopNack
    \/ ReporterParseMsg
    \/ \E t \in tasks : ReporterTaskReport(t, "ok", OneSignatureReport)
    \/ \E t \in tasks, ok \in BOOLEAN : ReporterAddResults(t, ok)
    \/ \E t \in tasks : ReporterSend(t)
    \/ OverseerStep
    \/ \E t \in tasks : TaskAck(t)
    \/ \E t \in tasks : TaskNack(t)

SpecContext == InitContext /\ [][NextContext]_vars

\* the Reporter alone, in every combination of CuckooCleanup and ProducerQueue
ReporterConfs ==
    {Conf(FALSE, cleanup, producer, 1, parsers) :
        cleanup \in BOOLEAN, producer \in {"", ChainQueue},
        parsers \in {{"signatures", "behavior"}, Parsers}}

InitReporter == \E c \in ReporterConfs : Start(EmptyQueues, c, {})

NextReporter ==
    \/ PublishReady
    \/ ReporterParseMsg
    \/ \E t \in tasks, resp \in TaskReportResps, report \in HandlerReports :
          ReporterTaskReport(t, resp, report)
    \/ \E t \in tasks, archive \in HandlerArchives : ReporterDropped(t, archive)
    \/ \E t \in tasks, ok \in BOOLEAN : ReporterAddResults(t, ok)
    \/ \E t \in tasks, ok \in BOOLEAN : ReporterDeleteTask(t, ok)
    \/ \E t \in tasks : ReporterSend(t)
    \/ \E t \in tasks : TaskAck(t)
    \/ \E t \in tasks : TaskNack(t)

SpecReporter == InitReporter /\ [][NextReporter]_vars

\* the shaping of reports: one ready task, every parser set and every cap
ShapingConfs ==
    {Conf(FALSE, FALSE, "", max, parsers) : max \in 0 .. MaxCap, parsers \in SUBSET Parsers}

InitShaping ==
    \E c \in ShapingConfs :
        Start([EmptyQueues EXCEPT ![ReadyQueue] = <<TaskBody(1, CuckooURL, CritsData(1))>>], c,
              {})

NextShaping ==
    \/ ReporterParseMsg
    \/ \E t \in tasks, report \in ShapingReports : ReporterTaskReport(t, "ok", report)
    \/ \E t \in tasks, archive \in ShapingArchives : ReporterDropped(t, archive)
    \/ \E t \in tasks, ok \in BOOLEAN : ReporterAddResults(t, ok)
    \/ \E t \in tasks : TaskAck(t)
    \/ \E t \in tasks : TaskNack(t)

SpecShaping == InitShaping /\ [][NextShaping]_vars

\* the Reporter with the info parser alone, on every shape of info.machine
InitInfo == Start(EmptyQueues, Conf(FALSE, FALSE, "", 0, {"info"}), {})

NextInfo ==
    \/ PublishReady
    \/ ReporterParseMsg
    \/ \E t \in tasks, report \in InfoReports : ReporterTaskReport(t, "ok", report)
    \/ \E t \in tasks, ok \in BOOLEAN : ReporterAddResults(t, ok)
    \/ \E t \in tasks : TaskAck(t)
    \/ \E t \in tasks : TaskNack(t)

SpecInfo == InitInfo /\ [][NextInfo]_vars

\* the Reporter with the three report parsers, on reports without content
InitEmpty == Start(EmptyQueues, Conf(FALSE, FALSE, "", 1, {"info", "signatures", "behavior"}), {})

NextEmpty ==
    \/ PublishReady
    \/ ReporterParseMsg
    \/ \E t \in tasks, report \in EmptyReports : ReporterTaskReport(t, "ok", report)
    \/ \E t \in tasks, ok \in BOOLEAN : ReporterAddResults(t, ok)
    \/ \E t \in tasks : TaskAck(t)
    \/ \E t \in tasks : TaskNack(t)

SpecEmpty == InitEmpty /\ [][NextEmpty]_vars

\* the Watcher publishes a ready message for a reported task
PublishReported ==
    /\ published < MaxPublish
    /\ queues' = Send(queues, ReadyQueue,
                      Marshal(CheckResultsReq(FeedCuckooReq(
                          TaskBody(published + 1, CuckooURL, CritsData(published + 1))))))
    /\ published' = published + 1
    /\ UNCHANGED <<deliveries, unacked, hist, tasks, alive, conf, sandbox, watchMap, loop,
                   failedMap, dumpDir, crits, crashes>>

\* the two configuration files of the README: the first instance consumes the
\* queue of check_results and produces to the queue of the second, which
\* parses the dropped files, cleans up, and produces to the queue of the first
ChainedConf ==
    Conf(FALSE, FALSE, ConsumerQueue(SecondReporter), 1, {"info", "signatures", "behavior"})
    @@ [second |-> Conf(FALSE, TRUE, ConsumerQueue(Reporter), 1, {"dropped"}),
        deliveries |-> MaxChainDeliveries]

InitChain == Start(EmptyQueues, ChainedConf, {})

\* what one instance of parse_and_submit does when the sandbox and the
\* repository answer
ReporterChainStep(w) ==
    \/ ReporterParseMsgAt(w)
    \/ \E t \in tasks : t.w = w /\ ReporterTaskReport(t, "ok", OneSignatureReport)
    \/ \E t \in tasks : t.w = w /\ ReporterDropped(t, OneFileArchive)
    \/ \E t \in tasks : t.w = w /\ ReporterAddResults(t, TRUE)
    \/ \E t \in tasks, ok \in BOOLEAN : t.w = w /\ ReporterDeleteTask(t, ok)
    \/ \E t \in tasks : t.w = w /\ ReporterSend(t)
    \/ \E t \in tasks : t.w = w /\ TaskAck(t)

NextChain ==
    \/ PublishReported
    \/ ReporterChainStep(Reporter)
    \/ ReporterChainStep(SecondReporter)

SpecChain == InitChain /\ [][NextChain]_vars

\* CRITs submits valid samples
PublishValid ==
    /\ published < MaxPublish
    /\ queues' = Send(queues, SubmitQueue,
                      SubmitBody(published + 1, FileMap(TRUE, "a.exe", TRUE, GoodB64),
                                 CritsData(published + 1)))
    /\ published' = published + 1
    /\ UNCHANGED <<deliveries, unacked, hist, tasks, alive, conf, sandbox, watchMap, loop,
                   failedMap, dumpDir, crits, crashes>>

\* the Feeder in front of a sandbox that answers every status poll
FeederAdmissionStep ==
    \/ FeederParseMsg
    \/ \E t \in tasks : FeederGetStatus(t, "ok")
    \/ \E t \in tasks, ok \in BOOLEAN : FeederNewTask(t, ok)
    \/ \E t \in tasks : t.w = Feeder /\ TaskAck(t)
    \/ \E t \in tasks : t.w = Feeder /\ TaskNack(t)

NextAdmission ==
    \/ PublishValid
    \/ SandboxRun
    \/ SandboxDisk
    \/ FeederAdmissionStep

\* a handleSubmit goroutine that can run does run; the sandbox is not obliged
\* to do anything
SpecAdmission == Init /\ [][NextAdmission]_vars /\ WF_vars(FeederAdmissionStep)

(* check_results with a Sandbox that finishes its analyses: a task that has
   reached the status "reported" keeps it, and is answered with it *)

\* the Sandbox finishes the analysis of a task
SandboxReports ==
    /\ \E id \in 1 .. MaxPublish :
          /\ id \notin sandbox.reported
          /\ sandbox' = [sandbox EXCEPT !.reported = @ \cup {id}]
    /\ UNCHANGED <<queues, deliveries, unacked, hist, tasks, alive, conf, watchMap, loop,
                   failedMap, dumpDir, crits, published, crashes>>

\* the steps of checkLoop, the one goroutine that polls
PollingStep ==
    \/ LoopStart
    \/ LoopNext
    \/ \E resp \in TaskStatusResps :
          /\ loop.v.Req.TaskId \in sandbox.reported <=> resp = "reported"
          /\ LoopTaskStatus(resp)
    \/ LoopAck
    \/ LoopNack

NextPolling ==
    \/ PublishPending
    \/ SandboxReports
    \/ \E visit \in BOOLEAN : WatcherParseMsg(visit)
    \/ WatcherParseMsgRace
    \/ PollingStep
    \/ \E t \in tasks : TaskNack(t)

\* checkLoop sleeps for a fixed time between two steps and is never blocked
\* by another goroutine: when it has a step to take it takes it
SpecPolling == Init /\ [][NextPolling]_vars /\ WF_vars(PollingStep)

(* overseer with a dump directory that holds files of this second already *)

\* a file dumped earlier under the name <unix time>_<counter>
OldDump(counter) == [name |-> counter, content |-> RawBody(0, "invalid")]

\* what the dump directory holds when the Overseer starts
DumpDirs == {{}, {OldDump(0)}, {OldDump(1)}, {OldDump(0), OldDump(1)}, {DirEntry}}

InitDump ==
    \E dir \in DumpDirs : Start(EmptyQueues, Conf(FALSE, FALSE, "", 0, {}), dir)

\* messages the Overseer dumps without a retry, from the goroutine that
\* receives them or from a handleFailed goroutine of its own
NextDump ==
    \/ PublishDumped
    \/ OverseerParseMsg
    \/ \E t \in tasks : OverseerDump(t)
    \/ \E t \in tasks : t.w = Overseer /\ TaskAck(t)

SpecDump == InitDump /\ [][NextDump]_vars

(* parse_and_submit with the parser of dropped files enabled: every way the
   download and the archive can fail *)

DroppedArchives ==
    ShapingArchives \cup
    {Archive("non200", <<>>),
     Archive("ok", <<TarEntry("a.dll", "ok", TRUE, "ok", "ok"),
                     TarEntry("b.dll", "ok", TRUE, "fail", "ok"),
                     TarEntry("c.dll", "ok", TRUE, "ok", "ok")>>)}

DroppedConfs == {Conf(FALSE, FALSE, "", 1, parsers) : parsers \in {{"dropped"}, Parsers}}

InitDropped == \E c \in DroppedConfs : Start(EmptyQueues, c, {})

NextDropped ==
    \/ PublishReady
    \/ ReporterParseMsg
    \/ \E t \in tasks : ReporterTaskReport(t, "ok", OneSignatureReport)
    \/ \E t \in tasks, archive \in DroppedArchives : ReporterDropped(t, archive)
    \/ \E t \in tasks, ok \in BOOLEAN : ReporterAddResults(t, ok)
    \/ \E t \in tasks : TaskAck(t)
    \/ \E t \in tasks : TaskNack(t)

SpecDropped == InitDropped /\ [][NextDropped]_vars

(* feed_cuckoo with the prefetch counts a configuration file can set; a file
   without the key sets 0 *)

InitPrefetch ==
    \E b \in BOOLEAN, n \in 0 .. PrefetchCount :
        Start(EmptyQueues,
              Conf(b, FALSE, "", 0, {"signatures", "behavior"}) @@ [PrefetchCount |-> n], {})

SpecPrefetch == InitPrefetch /\ [][NextFeeder]_vars

-----------------------------------------------------------------------------
(* Properties *)

TagsAt(w) == {tag \in DOMAIN hist : deliveries[tag].consumer = w}
Idx(h, e) == {i \in DOMAIN h : h[i].e = e}
Has(h, e) == Idx(h, e) # {}
SendsTo(h, q) == {i \in DOMAIN h : h[i].e = "Send" /\ h[i].q = q}
Completed(tag) == Has(hist[tag], "return")

\* the sample a body belongs to
RECURSIVE SampleOf(_)
SampleOf(body) ==
    CASE body.k = "task" -> body.CritsData.AnalysisId
      [] body.k = "failed" -> SampleOf(body.Msg)
      [] OTHER -> body.id

RECURSIVE InSeq(_, _)
InSeq(q, id) == q # <<>> /\ (SampleOf(Head(q)) = id \/ InSeq(Tail(q), id))

\* C4 (as stated): at every NewTask call the sandbox has fewer than MaxPending
\* pending tasks and, when CheckFreeSpace is set, more than 256 MiB free
C4_AdmissionAtNewTask ==
    \A tag \in TagsAt(Feeder) : \A i \in Idx(hist[tag], "NewTask") :
        /\ hist[tag][i].pendingNow < maxPending
        /\ conf.checkFreeSpace => hist[tag][i].freeNow > FreeLimit

\* C7: a valid submission whose upload succeeds has one NewTask call, then one
\* FeedCuckooReq on pending with the sandbox's task id, the Feeder's CuckooURL
\* and the request's crits_data, then the Ack; nothing goes to failed
C7_FeederSuccessPath ==
    \A tag \in TagsAt(Feeder) :
        LET h == hist[tag]
            d == deliveries[tag]
        IN \A i \in Idx(h, "NewTask") :
              h[i].ok =>
                 /\ Idx(h, "NewTask") = {i}
                 /\ SendsTo(h, PendingQueue) = {i + 1}
                 /\ h[i + 1].body = [k |-> "task", TaskId |-> h[i].id, CuckooURL |-> CuckooURL,
                                     CritsData |-> d.Body.crits_data]
                 /\ SendsTo(h, FailedQueue) = {}
                 /\ ~Has(h, "Nack") /\ ~Has(h, "NackOnError")
                 /\ Idx(h, "Ack") \subseteq {i + 2}
                 /\ Completed(tag) => Idx(h, "Ack") = {i + 2}

C7_Witness ==
    \E tag \in TagsAt(Feeder) :
        /\ Completed(tag)
        /\ \E i \in Idx(hist[tag], "NewTask") : hist[tag][i].ok
        /\ Has(hist[tag], "Slowdown")

\* what C8 says of a delivery the Feeder rejects, for a given service name and
\* a given rendering of the body in Msg
FeederRejection(tag, service, msg) ==
    LET h == hist[tag]
    IN /\ Cardinality(SendsTo(h, FailedQueue)) = 1
       /\ \A i \in SendsTo(h, FailedQueue) :
             /\ h[i].body.Service = service
             /\ h[i].body.Queue = SubmitQueue
             /\ h[i].body.Msg = msg
             /\ \A j \in Idx(h, "Nack") : j > i
       /\ Completed(tag) => Cardinality(Idx(h, "Nack")) = 1
       /\ ~Has(h, "Ack")
       /\ ~Has(h, "GetStatus") /\ ~Has(h, "NewTask")
       /\ SendsTo(h, PendingQueue) = {}

Rejected(body) ==
    \/ body.k = "raw"
    \/ body.k = "submit" /\ (\/ body.file.nil
                             \/ ~body.file.hasName \/ body.file.name = ""
                             \/ ~body.file.hasData \/ body.file.data = ""
                             \/ body.crits_data.nil
                             \/ body.file.data = BadB64)

C5_WatchTableInvariant ==
    /\ \A el \in watchMap : el.Msg \in unacked
    /\ \A el1, el2 \in watchMap : el1.Msg = el2.Msg => el1 = el2
    /\ \A tag \in TagsOf(Watcher) :
          Has(hist[tag], "insert") => \E el \in watchMap : el.Msg = tag
    /\ \A tag \in TagsAt(Watcher) :
          \A i \in Idx(hist[tag], "delete") \cup Idx(hist[tag], "overwritten") :
              i > 1 /\ hist[tag][i - 1].e \in {"Ack", "Nack"}

\* C9: a poll that returns "reported" is the last poll of its delivery and is
\* followed by one CheckResultsReq on ready with the entry's CuckooURL, TaskId
\* and CritsData, then by the Ack; once the handling is over the delivery has
\* been acked once and no entry of watchMap holds it
C9_WatcherCompletion ==
    \A tag \in TagsAt(Watcher) :
        LET h == hist[tag]
            req == deliveries[tag].Body
        IN \A i \in Idx(h, "TaskStatus") :
              h[i].resp = "reported" =>
                 /\ \A j \in Idx(h, "TaskStatus") : j <= i
                 /\ SendsTo(h, ReadyQueue) = {i + 1}
                 /\ h[i + 1].body = [k |-> "task", TaskId |-> req.TaskId,
                                     CuckooURL |-> req.CuckooURL, CritsData |-> req.CritsData]
                 /\ \A j \in Idx(h, "Ack") : j > i + 1
                 /\ SendsTo(h, FailedQueue) = {} /\ ~Has(h, "Nack")
                 /\ Completed(tag) =>
                       /\ Cardinality(Idx(h, "Ack")) = 1
                       /\ tag \notin unacked
                       /\ ~\E el \in watchMap : el.Msg = tag
                       /\ loop.pc = "TaskStatus" => loop.v.Msg # tag

C9_Witness ==
    \E tag \in TagsAt(Watcher) :
        /\ Completed(tag)
        /\ \E i \in Idx(hist[tag], "TaskStatus") : hist[tag][i].resp = "reported"
        /\ \E i \in Idx(hist[tag], "TaskStatus") : hist[tag][i].resp = "pending"
        /\ watchMap # {}

\* C10 (as stated): a TaskStatus query that fails by a transport error, an
\* undecodable answer or a status code other than 200 is followed by
\* NackOnError for the held delivery (so the Watcher lives on and polls the
\* other entries) and by the removal of its entry; nothing goes to ready
C10_WatcherErrorTransition ==
    \A tag \in TagsAt(Watcher) :
        LET h == hist[tag]
        IN \A i \in Idx(h, "TaskStatus") :
              h[i].resp \in {"transport", "undecodable", "non200"} =>
                 /\ Len(h) >= i + 2
                 /\ h[i + 1].e = "NackOnError"
                 /\ SendsTo(h, FailedQueue) = {i + 2}
                 /\ SendsTo(h, ReadyQueue) = {}
                 /\ ~Has(h, "Ack")
                 /\ \A j \in Idx(h, "Nack") : j > i + 2
                 /\ Completed(tag) =>
                       /\ Cardinality(Idx(h, "Nack")) = 1
                       /\ ~\E el \in watchMap : el.Msg = tag

\* the deliveries of FailedMsgs that carry analysis id a
Carrying(a) ==
    {tag \in TagsAt(Overseer) :
        LET body == deliveries[tag].Body
            r == HandleFailedAid(DecodeFailedMsg(body))
        IN Unmarshal(body) = NoErr /\ ~r.dump /\ r.aid = a}

Republished(tag) == Has(hist[tag], "Send")

\* C3 (as stated): of the deliveries carrying one analysis id, the Overseer
\* republishes at most 3; the 4th is not republished and leaves one dump file
C3_RetryBudget ==
    \A a \in AnalysisIds :
        /\ Cardinality({t \in Carrying(a) : Republished(t)}) <= 3
        /\ \A t \in Carrying(a) :
              Cardinality({u \in Carrying(a) : u < t}) = 3 /\ Completed(t) =>
                  /\ ~Republished(t)
                  /\ Cardinality(Idx(hist[t], "dump")) = 1
                  /\ Cardinality({f \in dumpDir : f.content = deliveries[t].Body}) >= 1

AckedOnce(h) == Cardinality(Idx(h, "Ack")) = 1 /\ ~Has(h, "Nack")

\* one FailedMsg with the given Msg went to failed, and one Nack without
\* requeue followed, and no Ack
NackedOnce(h, msg) ==
    /\ Cardinality(SendsTo(h, FailedQueue)) = 1
    /\ \A i \in SendsTo(h, FailedQueue) : h[i].body.k = "failed" /\ h[i].body.Msg = msg
    /\ Cardinality(Idx(h, "Nack")) = 1
    /\ \A i \in Idx(h, "Nack") : ~h[i].requeue
    /\ ~Has(h, "Ack")

Pipeline == {Feeder, Watcher, Reporter}

IsOwn(ev) == ev.e # "overwritten"

\* what C6 says of the calls of NackOnError with an error, for a given
\* rendering of the body in Msg
NackOnErrorContract(msgOf(_)) ==
    \A tag \in DOMAIN hist :
        LET h == SelectSeq(hist[tag], IsOwn)
            d == deliveries[tag]
        IN \A i \in Idx(h, "NackOnError") :
              /\ SendsTo(h, FailedQueue) = {i + 1}
              /\ h[i + 1].body = [k |-> "failed", Service |-> d.consumer, Queue |-> d.RoutingKey,
                                  Error |-> h[i].err, Desc |-> h[i].desc, Msg |-> msgOf(d.Body)]
              /\ h[i].err # NoErr
              /\ Len(h) >= i + 2 => h[i + 2] \in {EvNack(FALSE), EvPanic}
              /\ \A j \in Idx(h, "Nack") : j = i + 2
              /\ \A j \in DOMAIN h : j > i + 2 => h[j].e \in {"delete", "return"}

RawText(body) == body

Accounted(id) ==
    \/ \E q \in QueueNames : InSeq(queues[q], id)
    \/ \E tag \in unacked : SampleOf(deliveries[tag].Body) = id
    \/ \E tag \in TagsAt(Reporter) :
          /\ SampleOf(deliveries[tag].Body) = id
          /\ Has(hist[tag], "AddResults") /\ Has(hist[tag], "Ack")
    \/ \E f \in dumpDir : SampleOf(f.content) = id

\* C2: every sample published to submit is accounted for in every state,
\* whatever process is killed and whatever is redelivered
C2_NoMessageLost == \A id \in 1 .. published : Accounted(id)

C2_Witness ==
    /\ crashes > 0
    /\ \E tag \in DOMAIN hist : Has(hist[tag], "panic")
    /\ \A q \in QueueNames : queues[q] = <<>>
    /\ unacked = {}
    /\ published > 0

-----------------------------------------------------------------------------
(* parse_and_submit: the success and the failure path *)

\* the batch reportToCrits has put together when it calls AddResults: the
\* records of every enabled parser, the dropped files last
FullBatch(h, i) ==
    ShapeReport(h[i].report, conf.EnabledParsers, conf.PushApiCallsMax)
    \o (IF Has(h, "processDropped")
        THEN h[CHOOSE j \in Idx(h, "processDropped") : TRUE].results ELSE <<>>)

CleanupStep == IF conf.CuckooCleanup THEN 1 ELSE 0
ChainStep == IF conf.ProducerQueue # "" THEN 1 ELSE 0

\* C11: a ready delivery whose report fetch and AddResults succeed has one
\* AddResults call, made with the full shaped batch; then DeleteTask iff
\* CuckooCleanup is set, whatever its outcome; then the unchanged body of the
\* delivery on the producer queue iff one is configured; then the Ack, which is
\* the last call; no Ack is made before a successful AddResults
C11_ReporterSuccessPath ==
    \A tag \in TagsAt(Reporter) :
        LET h == hist[tag]
            d == deliveries[tag]
        IN /\ \A a \in Idx(h, "Ack") : \E i \in Idx(h, "AddResults") : i < a /\ h[i].ok
           /\ \A i \in Idx(h, "AddResults") :
                 h[i].ok =>
                    /\ Idx(h, "AddResults") = {i}
                    /\ Idx(h, "batch") = {i - 1}
                    /\ h[i - 1].results = FullBatch(h, i - 1)
                    /\ h[i - 1].request = AddResultsRequest(h[i - 1].results)
                    /\ "dropped" \in conf.EnabledParsers => Has(h, "processDropped")
                    /\ Idx(h, "DeleteTask") \subseteq (IF conf.CuckooCleanup THEN {i + 1} ELSE {})
                    /\ Idx(h, "Send") \subseteq
                          (IF conf.ProducerQueue # "" THEN {i + 1 + CleanupStep} ELSE {})
                    /\ \A j \in Idx(h, "Send") :
                          h[j].q = conf.ProducerQueue /\ h[j].body = d.Body
                    /\ Idx(h, "Ack") \subseteq {i + 1 + CleanupStep + ChainStep}
                    /\ ~Has(h, "Nack") /\ ~Has(h, "NackOnError")
                    /\ Has(h, "Ack") =>
                          /\ Has(h, "DeleteTask") <=> conf.CuckooCleanup
                          /\ Has(h, "Send") <=> conf.ProducerQueue # ""
                    /\ Completed(tag) =>
                          /\ Idx(h, "Ack") = {Len(h) - 1}
                          /\ conf.ProducerQueue # "" =>
                                \E k \in DOMAIN queues[conf.ProducerQueue] :
                                    queues[conf.ProducerQueue][k] = d.Body
                          /\ conf.ProducerQueue = "" => queues[ChainQueue] = <<>>

C11_Witness ==
    \E tag \in TagsAt(Reporter) :
        /\ Completed(tag)
        /\ conf.CuckooCleanup /\ conf.ProducerQueue = ChainQueue
        /\ \E i \in Idx(hist[tag], "DeleteTask") : ~hist[tag][i].ok
        /\ \E i \in Idx(hist[tag], "batch") : hist[tag][i].request.sent
        /\ Has(hist[tag], "processDropped")
        /\ Has(hist[tag], "Send") /\ Has(hist[tag], "Ack")

\* what C12 says of the deliveries whose report fetch fails in one of the given
\* ways, or whose AddResults fails
ReporterFailure(kinds) ==
    \A tag \in TagsAt(Reporter) :
        LET h == hist[tag]
            failures == {i \in Idx(h, "TaskReport") : h[i].resp \in kinds}
                        \cup {i \in Idx(h, "AddResults") : ~h[i].ok}
        IN \A i \in failures :
              /\ Len(h) >= i + 2
              /\ h[i + 1].e = "NackOnError"
              /\ SendsTo(h, FailedQueue) = {i + 2}
              /\ h[i + 2].body.k = "failed"
              /\ Idx(h, "Send") = {i + 2}
              /\ ~Has(h, "Ack") /\ ~Has(h, "DeleteTask")
              /\ \A j \in Idx(h, "Nack") : j > i + 2
              /\ Completed(tag) => Cardinality(Idx(h, "Nack")) = 1

\* C12 (as stated): a report fetch that fails by a transport error or a status
\* code other than 200, or a failed AddResults, is followed by NackOnError for
\* the delivery (one FailedMsg on failed, the delivery nacked), without Ack,
\* DeleteTask or republish to the producer queue
C12_ReporterFailurePath == ReporterFailure({"transport", "undecodable", "non200"})

-----------------------------------------------------------------------------
(* overseer: the retry cycle *)

\* the copies of submission id that are in a queue or unacknowledged
Copies(id) ==
    \/ \E q \in QueueNames : InSeq(queues[q], id)
    \/ \E tag \in unacked : SampleOf(deliveries[tag].Body) = id

Dumped(id) == \E f \in dumpDir : SampleOf(f.content) = id

\* the republishes the Overseer has made of submission id
Republishes(id) ==
    {<<tag, i>> \in UNION {{tag} \X Idx(hist[tag], "Send") : tag \in TagsAt(Overseer)} :
        SampleOf(hist[tag][i].body) = id}

\* C16 (as stated): under fair scheduling a submission that fails every time it
\* is processed is republished three times and dumped on its fourth failure,
\* after which no copy of it is in a queue or unacknowledged
C16_RetryTermination ==
    \A id \in 1 .. MaxPublish :
        /\ [](published >= id => <>[](Dumped(id) /\ ~Copies(id)))
        /\ [](Dumped(id) => Cardinality(Republishes(id)) = MaxFailures)

\* the deliveries of the pipeline workers whose NackOnError has published the
\* FailedMsg the Overseer delivery o carries
Origins(o) ==
    {f \in DOMAIN hist :
        /\ deliveries[f].consumer \in Pipeline
        /\ \E i \in SendsTo(hist[f], FailedQueue) : hist[f][i].body = deliveries[o].Body}

\* what C13 says of the retries, for a given rendering of the failed
\* delivery's body
OverseerRetry(text(_)) ==
    \A o \in TagsAt(Overseer) :
        LET h == hist[o]
            failed == DecodeFailedMsg(deliveries[o].Body)
        IN \A i \in Idx(h, "count") :
              h[i].n <= MaxFailures =>
                 /\ Idx(h, "Send") \subseteq {i + 1}
                 /\ \A j \in Idx(h, "Send") :
                       /\ h[j].q = failed.Queue
                       /\ \A f \in Origins(o) :
                             /\ h[j].q = deliveries[f].RoutingKey
                             /\ h[j].body = text(deliveries[f].Body)
                 /\ Idx(h, "Ack") \subseteq {i + 2}
                 /\ Has(h, "Ack") => Has(h, "Send")
                 /\ ~Has(h, "dump") /\ ~Has(h, "Nack")
                 /\ Completed(o) => Idx(h, "Send") = {i + 1} /\ Idx(h, "Ack") = {i + 2}

\* C13 (as stated): for a FailedMsg with a decodable Msg, a context and a count
\* of at most 3 the Overseer publishes one message to the queue the FailedMsg
\* names, the queue of the failed delivery, with the very body of the failed
\* delivery, and acknowledges after that; it writes no dump file
C13_OverseerRetry == OverseerRetry(RawText)

\* the three kinds of body C14 is about: no FailedMsg, a FailedMsg whose Msg is
\* not JSON, a FailedMsg whose Msg has no context under either key
NoEnvelope(body) == body.k # "failed"
NoPayload(body) == body.k = "failed" /\ body.Msg.k = "raw"
NoContext(body) ==
    /\ body.k = "failed"
    /\ \/ body.Msg.k = "submit" /\ body.Msg.crits_data.nil
       \/ body.Msg.k = "task" /\ body.Msg.CritsData.nil

\* the Overseer deliveries that have counted a failure of analysis a
Counted(a) ==
    {o \in TagsAt(Overseer) :
        /\ Has(hist[o], "count")
        /\ HandleFailedAid(DecodeFailedMsg(deliveries[o].Body)).aid = a}

\* C14: a delivery of the failed queue that is no FailedMsg, or whose Msg is not
\* decodable, or whose Msg has no context is not republished; one dump file
\* with the body of the delivery is written, the Ack follows the write, and no
\* counter is changed for it
C14_OverseerDump ==
    /\ \A a \in AnalysisIds : failedMap[a] <= Cardinality(Counted(a))
    /\ \A o \in TagsAt(Overseer) :
          LET h == hist[o]
              body == deliveries[o].Body
          IN NoEnvelope(body) \/ NoPayload(body) \/ NoContext(body) =>
                /\ ~Has(h, "Send") /\ ~Has(h, "count") /\ ~Has(h, "Nack")
                /\ Idx(h, "dump") \subseteq {1}
                /\ Idx(h, "Ack") \subseteq {2}
                /\ Has(h, "Ack") => Has(h, "dump")
                /\ \A i \in Idx(h, "dump") :
                      /\ [name |-> h[i].name, content |-> body] \in dumpDir
                      /\ Cardinality({f \in dumpDir : f.name = h[i].name}) = 1
                /\ Completed(o) => Idx(h, "dump") = {1} /\ Idx(h, "Ack") = {2}

C14_Witness ==
    \E o1, o2, o3 \in TagsAt(Overseer) :
        /\ Completed(o1) /\ Completed(o2) /\ Completed(o3)
        /\ NoEnvelope(deliveries[o1].Body)
        /\ NoPayload(deliveries[o2].Body)
        /\ NoContext(deliveries[o3].Body)
        /\ Cardinality(dumpDir) = 3

-----------------------------------------------------------------------------
(* overseer: resubmit mode *)

\* the regular files the run has found in the dump directory
RegularFiles(t) == {f \in t.dir : ~IsDir(f)}
SentNames(t) == {t.sent[j].name : j \in DOMAIN t.sent}

\* C15: a run in resubmit mode publishes one message to the failed queue for
\* every regular file of the dump directory, with the content of the file as
\* its body, which is the FailedMsg body that was dumped; a file is deleted
\* after its publish only, and none of the files is left at the end
C15_ResubmitRoundTrip ==
    \A t \in tasks :
        t.w = ResubmitMode =>
           /\ \A j \in DOMAIN t.sent :
                 /\ \E f \in RegularFiles(t) : f.name = t.sent[j].name /\ f.content = t.sent[j].body
                 /\ \E o \in TagsAt(Overseer) : \E i \in Idx(hist[o], "dump") :
                       hist[o][i].name = t.sent[j].name /\ deliveries[o].Body = t.sent[j].body
                 /\ \A k \in DOMAIN t.sent : t.sent[k].name = t.sent[j].name => k = j
           /\ Len(queues[FailedQueue]) =
                 published - Cardinality(TagsAt(Overseer)) + Len(t.sent)
           /\ \A k \in 1 .. Len(t.sent) :
                 \E q \in DOMAIN queues[FailedQueue] : queues[FailedQueue][q] = t.sent[k].body
           /\ \A q \in QueueNames \ {FailedQueue} : queues[q] = <<>>
           /\ \A f \in RegularFiles(t) : f \notin dumpDir => f.name \in SentNames(t)
           /\ dumpDir \subseteq t.dir
           /\ t.pc = "done" =>
                 /\ SentNames(t) = {f.name : f \in RegularFiles(t)}
                 /\ dumpDir = t.dir \ RegularFiles(t)

C15_Witness ==
    \E t \in tasks :
        /\ t.w = ResubmitMode /\ t.pc = "done"
        /\ DirEntry \in dumpDir
        /\ Len(t.sent) >= 3
        /\ \E j, k \in DOMAIN t.sent :
              /\ t.sent[j].body = RawBody(0, "invalid")
              /\ t.sent[k].body.k = "failed"

-----------------------------------------------------------------------------
(* The context of a message *)

\* the context the consumer of a delivery finds in its body
Received(tag) ==
    IF deliveries[tag].consumer = Feeder
    THEN DistributedCuckooReq(deliveries[tag].Body).CritsData
    ELSE FeedCuckooReq(deliveries[tag].Body).CritsData

Downstream == {PendingQueue, ReadyQueue, ChainQueue}

\* FailedMsg e is in the failed queue, held by the Overseer or in a dump file
OnWayToDump(e) ==
    \/ \E k \in DOMAIN queues[FailedQueue] : queues[FailedQueue][k] = e
    \/ \E o \in unacked : deliveries[o].consumer = Overseer /\ deliveries[o].Body = e
    \/ \E f \in dumpDir : f.content = e

\* C17: what the Feeder, the Watcher and the Reporter publish to pending, ready
\* and the producer queue has the context of the delivery it was made from, and
\* what the Overseer republishes has a context; a delivery without context is
\* not forwarded: its FailedMsg goes to the failed queue, is never counted or
\* republished by the Overseer, and is dumped
C17_RepositoryContext ==
    /\ \A o \in TagsAt(Overseer) : \A i \in Idx(hist[o], "Send") :
          LET payload == genericMsg(hist[o][i].body)
          IN ~payload.CritsData.nil \/ ~payload.CritsDataJ.nil
    /\ \A tag \in DOMAIN hist :
          LET h == hist[tag]
          IN deliveries[tag].consumer \in Pipeline =>
                /\ \A i \in Idx(h, "Send") :
                      h[i].q \in Downstream =>
                         /\ ~FeedCuckooReq(h[i].body).CritsData.nil
                         /\ FeedCuckooReq(h[i].body).CritsData = Received(tag)
                /\ Received(tag).nil =>
                      /\ \A i \in Idx(h, "Send") : h[i].q = FailedQueue
                      /\ ~Has(h, "Ack")
                      /\ Completed(tag) => Cardinality(SendsTo(h, FailedQueue)) = 1
                      /\ \A i \in SendsTo(h, FailedQueue) :
                            /\ OnWayToDump(h[i].body)
                            /\ \A o \in TagsAt(Overseer) :
                                  deliveries[o].Body = h[i].body =>
                                     /\ ~Has(hist[o], "Send") /\ ~Has(hist[o], "count")
                                     /\ Completed(o) =>
                                           /\ Has(hist[o], "dump")
                                           /\ \E f \in dumpDir : f.content = h[i].body

C17_Witness ==
    /\ \E tag \in TagsAt(Reporter) :
          /\ Completed(tag)
          /\ \E i \in SendsTo(hist[tag], ChainQueue) :
                FeedCuckooReq(hist[tag][i].body).CritsData = CritsData(1)
    /\ \E tag \in TagsAt(Watcher) : Has(hist[tag], "Send") /\ Completed(tag)
    /\ \E tag \in TagsAt(Feeder) : Has(hist[tag], "Send") /\ Completed(tag)
    /\ \E tag \in DOMAIN hist, o \in TagsAt(Overseer) :
          /\ deliveries[tag].consumer \in Pipeline
          /\ Received(tag).nil
          /\ Completed(tag) /\ Completed(o)
          /\ \E i \in SendsTo(hist[tag], FailedQueue) : deliveries[o].Body = hist[tag][i].body

-----------------------------------------------------------------------------
(* parse_and_submit: the batch *)

\* the AddResults calls of the Reporter: delivery and position in its history
Batches == UNION {{tag} \X Idx(hist[tag], "batch") : tag \in TagsAt(Reporter)}

\* C18: the form AddResults posts has the arrays result, result_subtype and
\* result_type, each as long as the batch, position i holding Result, Subtype
\* and the attribute map of record i, the map written as {} when it is nil
C18_ParallelArrays ==
    \A b \in Batches :
        LET results == hist[b[1]][b[2]].results
            request == hist[b[1]][b[2]].request
        IN /\ request.sent <=> results # <<>>
           /\ request.sent =>
                 /\ Len(request.result) = Len(results)
                 /\ Len(request.result_subtype) = Len(results)
                 /\ Len(request.result_type) = Len(results)
                 /\ \A i \in DOMAIN results :
                       /\ request.result[i] = results[i].Result
                       /\ request.result_subtype[i] = results[i].Subtype
                       /\ results[i].Data = NilData => request.result_type[i] = "{}"
                       /\ results[i].Data # NilData =>
                             /\ DOMAIN request.result_type[i] = DOMAIN results[i].Data
                             /\ \A k \in DOMAIN results[i].Data :
                                   IF k = "status"
                                   THEN request.result_type[i][k] =
                                           (IF results[i].Data[k] THEN "true" ELSE "false")
                                   ELSE request.result_type[i][k] = results[i].Data[k]

C18_Witness ==
    \E b \in Batches :
        LET results == hist[b[1]][b[2]].results
            request == hist[b[1]][b[2]].request
        IN /\ request.sent /\ Len(results) >= 4
           /\ \E i, j, k \in DOMAIN results :
                 /\ results[i].Data = NilData
                 /\ results[j].Subtype = "api_call" /\ results[j].Data.status
                 /\ results[k].Subtype = "file_added"

Min(a, b) == IF a <= b THEN a ELSE b

\* the API calls of a report in iteration order: the processes in order, the
\* calls of a process in order
RECURSIVE AllCalls(_)
AllCalls(processes) ==
    IF processes = <<>> THEN <<>>
    ELSE [k \in DOMAIN Head(processes).Calls |->
             [p |-> Head(processes), c |-> Head(processes).Calls[k]]]
         \o AllCalls(Tail(processes))

IsApiCall(r) == r.Subtype = "api_call"

\* the archive processDropped has read for the delivery, if it has
DroppedArchive(h) ==
    IF Has(h, "processDropped")
    THEN h[CHOOSE j \in Idx(h, "processDropped") : TRUE].archive
    ELSE Archive("transport", <<>>)

\* an entry that ends the loop over the archive
EndsLoop(e) ==
    \/ e.hdr # "ok"
    \/ e.regular /\ e.sample \notin {"ok", "empty"}
    \/ e.regular /\ e.sample = "ok" /\ e.forge # "ok"

\* the names of the dropped regular files that were uploaded and related to the
\* analysis: the non-empty regular files before the first entry that fails
DroppedNames(archive) ==
    LET es == archive.entries
        stop == IF \E i \in DOMAIN es : EndsLoop(es[i])
                THEN CHOOSE i \in DOMAIN es : EndsLoop(es[i]) /\ \A j \in 1 .. i - 1 : ~EndsLoop(es[j])
                ELSE Len(es) + 1
        IsUploaded(e) == e.regular /\ e.sample = "ok"
        done == SelectSeq(SubSeq(es, 1, stop - 1), IsUploaded)
    IN IF archive.get # "ok" THEN <<>> ELSE [i \in DOMAIN done |-> done[i].name]

Kind(subtype, names) == [i \in DOMAIN names |-> <<subtype, names[i]>>]

\* the records C19 expects, as pairs of subtype and primary value
Composition(report, parsers, max, archive) ==
    LET b == report.Behavior
        calls == AllCalls(b.Processes)
    IN (IF "info" \in parsers /\ ~report.Info.nil
        THEN <<(<<"info", MachineString(report.Info.Machine)>>)>> ELSE <<>>)
       \o (IF "signatures" \in parsers
           THEN Kind("signature", [i \in DOMAIN report.Signatures |->
                                      report.Signatures[i].Description])
           ELSE <<>>)
       \o (IF "behavior" \in parsers /\ ~b.nil
           THEN Kind("process", [i \in DOMAIN b.Processes |-> b.Processes[i].Name])
                \o Kind("api_call", [i \in 1 .. Min(Len(calls), max) |-> calls[i].c.Api])
                \o Kind("file", b.Summary.Files)
                \o Kind("registry_key", b.Summary.Keys)
                \o Kind("mutex", b.Summary.Mutexes)
           ELSE <<>>)
       \o (IF "dropped" \in parsers THEN Kind("file_added", DroppedNames(archive)) ELSE <<>>)

\* C19: the batch has, in this order, the info record when the report has
\* info, a signature record per signature, a process record per process, the
\* capped api_call records, a file, registry_key and mutex record per entry of
\* the summary, and a file_added record per dropped regular file that was
\* uploaded and related; a parser that is not enabled adds no record
C19_BatchComposition ==
    \A b \in Batches :
        LET h == hist[b[1]]
            results == h[b[2]].results
        IN [i \in DOMAIN results |-> <<results[i].Subtype, results[i].Result>>]
           = Composition(h[b[2]].report, conf.EnabledParsers, conf.PushApiCallsMax,
                         DroppedArchive(h))

C19_Witness ==
    \E b \in Batches :
        LET h == hist[b[1]]
            report == h[b[2]].report
        IN /\ conf.EnabledParsers = Parsers /\ conf.PushApiCallsMax = 0
           /\ ~report.Info.nil
           /\ Len(report.Signatures) = 2
           /\ ~report.Behavior.nil /\ Len(report.Behavior.Processes) = 3
           /\ Len(AllCalls(report.Behavior.Processes)) > 0
           /\ DroppedArchive(h) = OneFileArchive
           /\ Len(h[b[2]].results) = 7
           /\ [i \in 1 .. 7 |-> h[b[2]].results[i].Subtype]
              = <<"info", "signature", "signature", "process", "process", "process",
                  "file_added">>

\* C20: the api_call records of a batch are as many as the smaller of the
\* number of API calls of the report and PushApiCallsMax, and they are the
\* first calls in iteration order; with PushApiCallsMax = 0 there is none
C20_ApiCallCap ==
    \A b \in Batches :
        LET report == hist[b[1]][b[2]].report
            emitted == SelectSeq(hist[b[1]][b[2]].results, IsApiCall)
            calls == AllCalls(report.Behavior.Processes)
        IN IF "behavior" \in conf.EnabledParsers /\ ~report.Behavior.nil
           THEN /\ Len(emitted) = Min(Len(calls), conf.PushApiCallsMax)
                /\ \A i \in DOMAIN emitted : emitted[i] = ApiCallRecord(calls[i].p, calls[i].c)
                /\ conf.PushApiCallsMax = 0 => emitted = <<>>
           ELSE emitted = <<>>

C20_Witness ==
    \E b \in Batches :
        LET report == hist[b[1]][b[2]].report
            emitted == SelectSeq(hist[b[1]][b[2]].results, IsApiCall)
        IN /\ "behavior" \in conf.EnabledParsers /\ ~report.Behavior.nil
           /\ conf.PushApiCallsMax = 3
           /\ Len(AllCalls(report.Behavior.Processes)) = 6
           /\ Len(emitted) = 3
           /\ emitted[3].Data.process # emitted[2].Data.process

-----------------------------------------------------------------------------
(* parse_and_submit: the machine name *)

\* the primary value C21 expects of the info record
ExpectedMachine(machine) ==
    CASE machine.k = "string" /\ machine.v # "" -> machine.v
      [] machine.k = "object" /\ machine.hasName -> machine.name
      [] OTHER -> "FAILED"

\* the info records of the batches, each with the info it was made from
InfoRecords ==
    {[info |-> hist[b[1]][b[2]].report.Info, r |-> hist[b[1]][b[2]].results[1]] :
        b \in {x \in Batches : "info" \in conf.EnabledParsers
                                /\ ~hist[x[1]][x[2]].report.Info.nil}}

\* C21 (as stated): the primary value of the info record is the string when
\* info.machine is a JSON string, the name when it is an object with a name,
\* and "FAILED" when it is missing or neither, JSON null and an object without
\* a name included
C21_MachineName ==
    \A x \in InfoRecords :
        x.r.Subtype = "info" /\ x.r.Result = ExpectedMachine(x.info.Machine)

\* the same for the shapes other than null and an object without a name
C21_MachineName_Decided ==
    \A x \in InfoRecords :
        x.info.Machine.k # "null" /\ ~(x.info.Machine.k = "object" /\ ~x.info.Machine.hasName) =>
            x.r.Subtype = "info" /\ x.r.Result = ExpectedMachine(x.info.Machine)

-----------------------------------------------------------------------------
(* parse_and_submit: a report without content *)

\* what C22 says of the deliveries whose report, one of those in reports, was
\* fetched: the shaping comes to an end with an empty batch, AddResults posts
\* nothing and succeeds, and the delivery is acknowledged
EmptyReport(reports) ==
    \A tag \in TagsAt(Reporter) :
        LET h == hist[tag]
            \* the process has ended over a report that is not one of reports
            ended == \E u \in TagsAt(Reporter) : \E j \in DOMAIN hist[u] :
                        /\ hist[u][j].e = "TaskReport" /\ hist[u][j].report \notin reports
                        /\ Has(hist[u], "panic")
        IN \A i \in Idx(h, "TaskReport") :
              h[i].resp = "ok" /\ h[i].report \in reports /\ ~ended =>
                 /\ Len(h) > i => /\ h[i + 1].e = "batch"
                                  /\ h[i + 1].results = <<>>
                                  /\ ~h[i + 1].request.sent
                 /\ \A j \in Idx(h, "AddResults") : h[j].ok
                 /\ ~Has(h, "Nack") /\ SendsTo(h, FailedQueue) = {}
                 /\ Completed(tag) => AckedOnce(h)

\* C22 (as stated): for a report whose info, signatures and behavior are
\* absent or present without content (a behavior with no processes and no
\* summary is one), the shaping returns an empty batch, AddResults sends no
\* request and succeeds, and the ready delivery is acknowledged
C22_EmptyReport == EmptyReport(EmptyReports)

\* the same for the reports whose info is absent and whose behavior is absent
\* or has a summary
C22_EmptyReport_Absent ==
    EmptyReport({r \in EmptyReports : r.Info.nil /\ (r.Behavior.nil \/ ~r.Behavior.Summary.nil)})

-----------------------------------------------------------------------------
(* parse_and_submit: two chained instances *)

\* the deliveries of ready message id that instance w has received
ProcessedBy(w, id) == {tag \in TagsAt(w) : SampleOf(deliveries[tag].Body) = id}

\* C23 (as stated): with the two configuration files of the README a ready
\* message is processed once by the first instance and then once by the
\* second, after which no copy of it is in either queue; no FailedMsg and no
\* dump file is made for it
C23_ReporterChain ==
    \A id \in 1 .. MaxPublish :
        /\ Cardinality(ProcessedBy(Reporter, id)) <= 1
        /\ Cardinality(ProcessedBy(SecondReporter, id)) <= 1
        /\ \A u \in ProcessedBy(SecondReporter, id) :
              /\ \E tag \in ProcessedBy(Reporter, id) :
                    tag < u /\ SendsTo(hist[tag], ChainQueue) # {}
              /\ Completed(u) => Has(hist[u], "Ack")
              /\ Completed(u) /\ (\A tag \in ProcessedBy(Reporter, id) : Completed(tag)) =>
                    ~Copies(id)
        /\ \A tag \in ProcessedBy(Reporter, id) \cup ProcessedBy(SecondReporter, id) :
              SendsTo(hist[tag], FailedQueue) = {}
        /\ ~InSeq(queues[FailedQueue], id) /\ ~Dumped(id)

\* the part of it that holds: the second instance gets a message after the
\* first has sent it on, and nothing fails while the sandbox and the
\* repository answer
C23_ReporterChain_Order ==
    \A id \in 1 .. MaxPublish :
        /\ \A u \in ProcessedBy(SecondReporter, id) :
              /\ \E tag \in ProcessedBy(Reporter, id) :
                    tag < u /\ SendsTo(hist[tag], ChainQueue) # {}
              /\ Completed(u) => Has(hist[u], "Ack")
        /\ \A tag \in ProcessedBy(Reporter, id) \cup ProcessedBy(SecondReporter, id) :
              SendsTo(hist[tag], FailedQueue) = {}
        /\ ~InSeq(queues[FailedQueue], id) /\ ~Dumped(id)

-----------------------------------------------------------------------------
(* feed_cuckoo: the slowdown loop *)

\* the sandbox passes the admission conditions
Admits ==
    /\ sandbox.Pending < maxPending
    /\ conf.checkFreeSpace => sandbox.Free > FreeLimit

\* the delivery is in the slowdown loop, and the model lets it poll again
InSlowdownLoop(tag) ==
    /\ \E t \in tasks : t.w = Feeder /\ t.tag = tag /\ t.pc = "GetStatus"
    /\ Count(hist[tag], "GetStatus") < MaxPolls

\* a poll of the sandbox made for delivery tag: what it adds to the history
PollOf(tag) ==
    /\ tag \in DOMAIN hist /\ tag \in DOMAIN hist'
    /\ Len(hist'[tag]) > Len(hist[tag])
    /\ hist'[tag][Len(hist[tag]) + 1].e = "GetStatus"

-----------------------------------------------------------------------------
(* parse_and_submit: the attributes of a record *)

IsSignature(r) == r.Subtype = "signature"
IsProcess(r) == r.Subtype = "process"

\* what C25 says of the signature and process records from position from on
PerRecordAttributes(from(_)) ==
    \A b \in Batches :
        LET report == hist[b[1]][b[2]].report
            request == hist[b[1]][b[2]].request
            results == hist[b[1]][b[2]].results
            sigs == SelectSeq(results, IsSignature)
            pcs == SelectSeq(results, IsProcess)
        IN /\ "signatures" \in conf.EnabledParsers =>
                 /\ Len(sigs) = Len(report.Signatures)
                 /\ \A k \in from(sigs) .. Len(sigs) :
                       sigs[k].Data = [severity |-> ToString(report.Signatures[k].Severity),
                                       name |-> report.Signatures[k].Name]
           /\ "behavior" \in conf.EnabledParsers /\ ~report.Behavior.nil =>
                 /\ Len(pcs) = Len(report.Behavior.Processes)
                 /\ \A k \in from(pcs) .. Len(pcs) :
                       pcs[k].Data =
                          [process_id |-> ToString(report.Behavior.Processes[k].Id),
                           parent_id |-> ToString(report.Behavior.Processes[k].ParentId),
                           first_seen |-> report.Behavior.Processes[k].FirstSeen]
           /\ \A i \in DOMAIN results :
                 IsSignature(results[i]) \/ IsProcess(results[i]) =>
                     request.result_type[i] = results[i].Data

First(records) == 1
Last(records) == IF records = <<>> THEN 1 ELSE Len(records)

\* C25 (as stated): every signature record of a batch has the severity and
\* the name of its own signature, every process record the process_id,
\* parent_id and first_seen of its own process, and so they are sent
C25_PerRecordAttributes == PerRecordAttributes(First)

\* the same for the last signature and the last process of a report only
C25_PerRecordAttributes_Last == PerRecordAttributes(Last)

-----------------------------------------------------------------------------
(* check_results: two tasks with one analysis id *)

\* the entry of delivery tag has been replaced in watchMap
Overwritten(tag) == Has(hist[tag], "overwritten")

\* checkLoop has taken the entry of delivery tag from the map and is at work
\* on it
Held(tag) == loop.pc \in {"TaskStatus", "Ack", "Nack"} /\ loop.v.Msg = tag

\* nothing happens to delivery tag in a step, unless the process ends
Frozen(tag) ==
    \/ hist'[tag] = hist[tag] /\ (tag \in unacked <=> tag \in unacked')
    \/ hist'[tag] = Append(hist[tag], EvPanic)

\* parseMsg puts delivery tag into watchMap in this step
Inserts(tag) ==
    /\ Len(hist) = tag - 1 /\ Len(hist') = tag
    /\ deliveries'[tag].consumer = Watcher
    /\ hist'[tag] = <<EvInsert>>

\* the new entry is the one entry under its analysis id
Replaces(tag) ==
    LET m == FeedCuckooReq(deliveries'[tag].Body)
    IN {el \in watchMap' : el.k = m.CritsData.AnalysisId}
          = {watchElem(m.CritsData.AnalysisId, m, tag)}

-----------------------------------------------------------------------------
(* check_results: the accesses to watchMap *)

\* checkLoop is inside "for k, v := range watchMap"
InRange == loop.pc # "sleep"

\* C27: every access to watchMap is guarded: parseMsg never inserts an entry
\* while checkLoop ranges over the map, reads it or deletes from it, so the
\* process never ends over two accesses at once
C27_WatchTableGuarded ==
    /\ [][\A tag \in 1 .. MaxDeliveries : Inserts(tag) => ~InRange]_vars
    /\ [](\A tag \in DOMAIN hist : ~Has(hist[tag], "concurrent map access"))

\* the part of C27 about the process alone
C27_WatchTableGuarded_NoFatal ==
    \A tag \in DOMAIN hist : ~Has(hist[tag], "concurrent map access")

-----------------------------------------------------------------------------
(* check_results: a poll that finds the analysis unfinished *)

\* answers of the Sandbox with a task whose status is not "reported"
Unfinished == {resp \in TaskStatusResps : resp \notin {"transport", "undecodable", "non200",
                                                        "notask", "reported"}}

\* in this step checkLoop polls the task of delivery tag and the Sandbox
\* answers with an unfinished task
UnfinishedPoll(tag) ==
    /\ tag \in DOMAIN hist
    /\ Len(hist'[tag]) > Len(hist[tag])
    /\ LET ev == hist'[tag][Len(hist[tag]) + 1]
       IN ev.e = "TaskStatus" /\ ev.resp \in Unfinished

\* C28: a poll answered with a status other than "reported" changes nothing:
\* the entry stays in watchMap with the same request and delivery, the delivery
\* stays unacknowledged, nothing is sent to any queue
C28_UnfinishedPoll ==
    [][\A tag \in 1 .. MaxDeliveries :
          UnfinishedPoll(tag) =>
             /\ Len(hist'[tag]) = Len(hist[tag]) + 1
             /\ \A u \in DOMAIN hist : u # tag => hist'[u] = hist[u]
             /\ watchMap' = watchMap
             /\ unacked' = unacked /\ tag \in unacked
             /\ queues' = queues /\ deliveries' = deliveries
             /\ alive' = alive /\ tasks' = tasks
             /\ ~Overwritten(tag) =>
                   \E el \in watchMap' :
                      /\ el.Msg = tag
                      /\ el.Req = FeedCuckooReq(deliveries[tag].Body)
                      /\ el.k = el.Req.CritsData.AnalysisId]_vars

C28_Witness ==
    \E tag \in TagsAt(Watcher) :
        /\ hist[tag] = <<EvInsert, EvTaskStatus("pending")>>
        /\ tag \in unacked
        /\ \E el \in watchMap : el.Msg = tag
        /\ queues[ReadyQueue] = <<>> /\ queues[FailedQueue] = <<>>
        /\ loop.pc = "next"

-----------------------------------------------------------------------------
(* check_results: every entry is polled *)

\* delivery tag is held by an entry of watchMap
EntryOf(tag) == \E el \in watchMap : el.Msg = tag

\* the Sandbox has finished the task of delivery tag
TaskReported(tag) == FeedCuckooReq(deliveries[tag].Body).TaskId \in sandbox.reported

\* the model polls the task of a delivery MaxPolls times at most
PollsLeft(tag) == Count(hist[tag], "TaskStatus") < MaxPolls

\* the task of delivery tag has gone to the ready queue, the delivery is
\* acknowledged and its entry removed
Forwarded(tag) ==
    /\ tag \in DOMAIN hist
    /\ SendsTo(hist[tag], ReadyQueue) # {}
    /\ Has(hist[tag], "Ack") /\ tag \notin unacked
    /\ ~EntryOf(tag)

\* the entry of delivery tag has gone from watchMap over another delivery with
\* the same analysis id: replaced by its entry, or removed by the delete that
\* followed the poll of the entry it had replaced
Displaced(tag) ==
    /\ tag \in DOMAIN hist
    /\ Overwritten(tag) \/ (Has(hist[tag], "delete") /\ ~Completed(tag))

\* a poll of the task of delivery tag has failed and the delivery is nacked
PollFailed(tag) == tag \in DOMAIN hist /\ Has(hist[tag], "Nack")

\* C29 (as stated): while checkLoop runs, an entry of watchMap whose task the
\* Sandbox has finished for good is eventually sent to the ready queue,
\* acknowledged and removed, unless a poll of it had failed before
C29_WatcherLiveness ==
    \A tag \in 1 .. MaxDeliveries :
        [](tag \in DOMAIN hist /\ alive[Watcher] /\ EntryOf(tag) /\ TaskReported(tag)
              /\ PollsLeft(tag)
           => <>(~alive[Watcher] \/ Forwarded(tag) \/ PollFailed(tag)))

\* what holds of C29: an entry is polled again as long as it is in watchMap,
\* and an entry whose task is finished is forwarded unless another delivery
\* with the same analysis id displaces it
C29_WatcherLiveness_Undisplaced ==
    /\ \A tag \in 1 .. MaxDeliveries :
          [](tag \in DOMAIN hist /\ alive[Watcher] /\ EntryOf(tag) /\ TaskReported(tag)
                /\ PollsLeft(tag)
             => <>(~alive[Watcher] \/ Forwarded(tag) \/ PollFailed(tag) \/ Displaced(tag)))
    /\ \A tag \in 1 .. MaxDeliveries : \A n \in 0 .. MaxPolls - 1 :
          [](tag \in DOMAIN hist /\ alive[Watcher] /\ EntryOf(tag)
                /\ Count(hist[tag], "TaskStatus") = n
             => <>(\/ ~alive[Watcher]
                   \/ tag \in DOMAIN hist /\ Count(hist[tag], "TaskStatus") > n
                   \/ tag \in DOMAIN hist /\ ~EntryOf(tag)))

-----------------------------------------------------------------------------
(* overseer: the files of the dump directory *)

\* goroutines inside dumpMsg, holding fsMutex
InDumpMsg == {t \in tasks : t.w = Overseer /\ t.lock}

\* in this step the delivery tag is dumped
Dumps(tag) ==
    /\ tag \in DOMAIN hist
    /\ Count(hist'[tag], "dump") > Count(hist[tag], "dump")

\* C30: the choice of the file name and the write are one critical section:
\* every dump creates one file under a name no entry of the directory has,
\* with the body of the delivery as its content; no file that was there is
\* changed, and the directory has one entry more.  One goroutine at most is
\* inside dumpMsg, and a delivery is dumped once.
C30_DumpUnique ==
    /\ [][\A tag \in 1 .. MaxDeliveries :
             Dumps(tag) =>
                LET new == dumpDir' \ dumpDir
                IN /\ InDumpMsg = {}
                   /\ dumpDir \subseteq dumpDir'
                   /\ Cardinality(dumpDir') = Cardinality(dumpDir) + 1
                   /\ \A f \in new :
                         /\ f.name \notin {g.name : g \in dumpDir}
                         /\ f.content = deliveries[tag].Body
                         /\ hist'[tag] = Append(hist[tag], EvDump(f.name))
                   /\ \A u \in DOMAIN hist : u # tag => ~Dumps(u)]_vars
    /\ [](/\ Cardinality(InDumpMsg) <= 1
          /\ \A f, g \in dumpDir : f.name = g.name => f = g
          /\ \A tag \in TagsAt(Overseer) :
                /\ Count(hist[tag], "dump") <= 1
                /\ \A i \in Idx(hist[tag], "dump") :
                      [name |-> hist[tag][i].name, content |-> deliveries[tag].Body] \in dumpDir
          /\ \A a, b \in TagsAt(Overseer) :
                \A i \in Idx(hist[a], "dump"), j \in Idx(hist[b], "dump") :
                   hist[a][i].name = hist[b][j].name => a = b)

\* one goroutine is inside dumpMsg and has written its file, next to a file
\* that was there, while another waits for the mutex
C30_Witness ==
    \E t1, t2 \in tasks :
        /\ t1.w = Overseer /\ t1.lock /\ t1.pc = "Ack"
        /\ t2.w = Overseer /\ t2.pc = "dump"
        /\ OldDump(0) \in dumpDir
        /\ hist[t1.tag][Len(hist[t1.tag])] = EvDump(1)
        /\ [name |-> 1, content |-> deliveries[t1.tag].Body] \in dumpDir
        /\ Cardinality(dumpDir) = 2

-----------------------------------------------------------------------------
(* parse_and_submit: the dropped files *)

\* the goroutine t of reportToCrits is at processDropped and leaves it in
\* this step
DroppedStep(t) == t.w = Reporter /\ t.pc = "Dropped" /\ t \notin tasks'

\* the file_added records of the files of an archive that were uploaded and
\* related before the first failure
FileAddedRecords(archive) ==
    [i \in DOMAIN DroppedNames(archive) |-> FileAdded(DroppedNames(archive)[i])]

\* processDropped has gone over an archive for the goroutine t: the records
\* of the files handled before the failure are kept for AddResults, and the
\* delivery is neither nacked nor sent to the failed queue
KeepsPartial(t) ==
    \E t2 \in tasks' :
        /\ t2.tag = t.tag /\ t2.pc = "AddResults"
        /\ Len(hist'[t.tag]) = Len(hist[t.tag]) + 1
        /\ LET ev == hist'[t.tag][Len(hist'[t.tag])]
           IN /\ ev.e = "processDropped"
              /\ ev.results = FileAddedRecords(ev.archive)
              /\ t2.dropped = ev.results
              /\ \A i \in DOMAIN ev.results :
                    [k |-> "sample",
                     AnalysisId |-> FeedCuckooReq(deliveries[t.tag].Body).CritsData.AnalysisId,
                     name |-> ev.results[i].Result] \in crits'
        /\ queues' = queues /\ unacked' = unacked /\ alive' = alive

\* the records of processDropped are the end of the batch AddResults posts
SentWithAddResults ==
    \A b \in Batches :
        LET h == hist[b[1]]
            results == h[b[2]].results
            dropped == FileAddedRecords(DroppedArchive(h))
        IN /\ Has(h, "processDropped")
           /\ Len(results) >= Len(dropped)
           /\ SubSeq(results, Len(results) - Len(dropped) + 1, Len(results)) = dropped

\* C31: a failure in processDropped (the download of the archive, the reading
\* of the tar, NewSample, ForgeRelationship) never leads to a nack: the
\* file_added records made before the failure are kept and sent with
\* AddResults; a record is made for a regular, non-empty file after NewSample
\* and ForgeRelationship have both succeeded, and for nothing else
C31_DroppedBestEffort ==
    /\ [][\A t \in tasks : DroppedStep(t) => KeepsPartial(t)]_vars
    /\ []SentWithAddResults

\* what holds of C31: the same as long as the process runs
C31_DroppedBestEffort_Alive ==
    /\ [][\A t \in tasks : DroppedStep(t) /\ alive'[Reporter] => KeepsPartial(t)]_vars
    /\ []SentWithAddResults

-----------------------------------------------------------------------------
(* feed_cuckoo: the deliveries in progress *)

\* the handleSubmit goroutines in progress, and the deliveries parseMsg is
\* handling itself (on its way through NackOnError)
HandleSubmits == {t \in tasks : t.w = Feeder /\ ~t.inParse}
InParseMsg == {t \in tasks : t.w = Feeder /\ t.inParse}

-----------------------------------------------------------------------------
(* every worker: what is passed on before the delivery is settled *)

\* before position j of the history h of a delivery of worker w, the worker
\* has passed the work on: the Feeder has published to pending, the Watcher to
\* ready, the Reporter has added the results (and published to its producer
\* queue if it has one), the Overseer has republished or written the dump file
HandedOff(w, h, j) ==
    CASE w = Feeder -> \E i \in SendsTo(h, PendingQueue) : i < j
      [] w = Watcher -> \E i \in SendsTo(h, ReadyQueue) : i < j
      [] w = Reporter ->
            /\ \E i \in Idx(h, "AddResults") : i < j /\ h[i].ok
            /\ conf.ProducerQueue # "" => \E i \in SendsTo(h, conf.ProducerQueue) : i < j
      [] w = Overseer -> \E i \in Idx(h, "Send") \cup Idx(h, "dump") : i < j
      [] OTHER -> FALSE

\* in this step the process of worker w ends
Ends(w) == alive[w] /\ ~alive'[w]

-----------------------------------------------------------------------------
(* overseer: the failure counter during the life of the process *)

\* the handleFailed goroutines that have counted their delivery and are about
\* to test the counter
AtTest == {t \in tasks : t.w = Overseer /\ t.pc = "test"}

\* the handleFailed goroutine of delivery tag goes on to resubmit in this step
TurnsToResubmit(tag) == \E t \in tasks' : t.tag = tag /\ t.pc = "resubmit"

\* C34 (as stated): while the Overseer process lives, the failure count of an
\* analysis id never decreases; and a FailedMsg whose handler found the count
\* of its id at 3 or more is dumped, not republished
C34_CounterKept ==
    [][/\ alive[Overseer] /\ alive'[Overseer] =>
             \A a \in DOMAIN failedMap : failedMap'[a] >= failedMap[a]
       /\ \A t \in AtTest : t.n >= MaxFailures => ~TurnsToResubmit(t.tag)]_vars

-----------------------------------------------------------------------------
(* overseer: the retry budget across a restart *)

\* C35 (as stated): with an Overseer that is restarted, the messages of one
\* analysis id are republished to their origin queue at most 3 times in all
\* (counting only the deliveries the Overseer has republished and acknowledged)
C35_RetryBoundAcrossRestart ==
    \A a \in AnalysisIds :
        Cardinality({tag \in Carrying(a) :
                        SendsTo(hist[tag], SubmitQueue) # {} /\ Completed(tag)}) <= MaxFailures

-----------------------------------------------------------------------------
(* feed_cuckoo: a status poll that fails *)

\* C36 (as stated): when the status poll of a handleSubmit goroutine fails,
\* the Feeder process keeps running, no task is created in the sandbox, the
\* delivery is polled again or on its way to be nacked, and the other
\* handleSubmit goroutines and their deliveries are as they were
C36_StatusPollFailure ==
    [][\A t \in tasks :
          FeederGetStatus(t, "fail") =>
             /\ alive'[Feeder]
             /\ sandbox' = sandbox
             /\ \E t2 \in tasks' : t2.tag = t.tag /\ t2.pc \in {"GetStatus", "Nack"}
             /\ \A t2 \in tasks \ {t} : t2 \in tasks'
             /\ \A tag \in TagsOf(Feeder) \ {t.tag} :
                   tag \in unacked' /\ hist'[tag] = hist[tag]]_vars

=============================================================================
